---- MODULE Spec2Model ----
(***************************************************************************)
(* A model of the KiCad -> Zener importer (crates/pcb-kicad2zen): the      *)
(* mapping engine (net classifier, value normaliser, package extractor,    *)
(* symbol mapper) and the emitter.                                         *)
(*                                                                         *)
(* Strings are TLA+ strings; a character is a string of length 1.  The     *)
(* module text is kept ASCII: the few code points outside ASCII that the   *)
(* code treats specially are written with the one-character stand-ins      *)
(* U03BC, U00B5, U00E9 and U0663 defined below (and the grave accent with  *)
(* U0060), and those stand-in characters never occur with their ASCII      *)
(* meaning in any input.                                                   *)
(***************************************************************************)
EXTENDS Integers, Sequences, FiniteSets, TLC

VARIABLES
    pc,     \* "call" before the operation has run, "ret" after, "ret2" after a re-run
    op,     \* the operation under call
    arg,    \* its arguments (a record)
    ret,    \* its result
    ret2    \* the result of running it once more (on its own result, or on the same input)

vars == <<pc, op, arg, ret, ret2>>

NoRet == "<none>"

-----------------------------------------------------------------------------
(* Characters and strings                                                  *)

U03BC == "$"    \* GREEK SMALL LETTER MU, the letter the value patterns name
U00B5 == "~"    \* MICRO SIGN, case-folds to U+03BC, lowercases to itself
U00E9 == "^"    \* LATIN SMALL LETTER E WITH ACUTE, an alphabetic non-ASCII letter
U0663 == "|"    \* ARABIC-INDIC DIGIT THREE, a decimal digit outside ASCII

AsciiUpper == "ABCDEFGHIJKLMNOPQRSTUVWXYZ"
AsciiLower == "abcdefghijklmnopqrstuvwxyz"
AsciiDigit == "0123456789"

\* the i-th character of s, "" when there is none
At(s, i) == IF 1 <= i /\ i <= Len(s) THEN SubSeq(s, i, i) ELSE ""

Chars(s) == {At(s, i) : i \in 1..Len(s)}

IsAsciiUpper(c) == c \in Chars(AsciiUpper)
IsAsciiLower(c) == c \in Chars(AsciiLower)
IsAsciiDigit(c) == c \in Chars(AsciiDigit)

\* char::is_alphabetic, char::is_numeric, char::is_alphanumeric (Unicode aware)
is_alphabetic(c) == IsAsciiUpper(c) \/ IsAsciiLower(c) \/ c \in {U03BC, U00B5, U00E9}
is_numeric(c) == IsAsciiDigit(c) \/ c = U0663
is_alphanumeric(c) == is_alphabetic(c) \/ is_numeric(c)

\* char::is_whitespace, and the class \s of the regex crate
is_whitespace(c) == c \in {" ", "\t"}

\* the class \d of the regex crate (Unicode decimal digits)
IsDigit(c) == IsAsciiDigit(c) \/ c = U0663

IndexIn(s, c) == CHOOSE i \in 1..Len(s) : At(s, i) = c

\* char::to_lowercase
CharToLower(c) == IF IsAsciiUpper(c) THEN At(AsciiLower, IndexIn(AsciiUpper, c)) ELSE c

\* simple case folding, which (?i) patterns of the regex crate compare under
CharFold(c) == IF c = U00B5 THEN U03BC ELSE CharToLower(c)

RECURSIVE MapStr(_, _)
MapStr(F(_), s) == IF s = "" THEN "" ELSE F(Head(s)) \o MapStr(F, Tail(s))

\* str::to_lowercase
to_lowercase(s) == MapStr(CharToLower, s)

Fold(s) == MapStr(CharFold, s)

\* str::starts_with, str::ends_with, str::contains
starts_with(s, p) == Len(p) <= Len(s) /\ SubSeq(s, 1, Len(p)) = p
ends_with(s, p) == Len(p) <= Len(s) /\ SubSeq(s, Len(s) - Len(p) + 1, Len(s)) = p
contains(s, p) ==
    p = "" \/ \E i \in 1..(Len(s) - Len(p) + 1) : SubSeq(s, i, i + Len(p) - 1) = p

\* number of characters of s from position i on that satisfy P, up to the first that does not
RECURSIVE Run(_, _, _)
Run(P(_), s, i) == IF i <= Len(s) /\ P(At(s, i)) THEN 1 + Run(P, s, i + 1) ELSE 0

DigitRun(s, i) == Run(IsDigit, s, i)
SpaceRun(s, i) == Run(is_whitespace, s, i)

\* str::trim
RECURSIVE trim_start(_)
trim_start(s) == IF s # "" /\ is_whitespace(Head(s)) THEN trim_start(Tail(s)) ELSE s
RECURSIVE trim_end(_)
trim_end(s) ==
    IF s # "" /\ is_whitespace(At(s, Len(s))) THEN trim_end(SubSeq(s, 1, Len(s) - 1)) ELSE s
trim(s) == trim_end(trim_start(s))

\* the concatenation of a sequence of strings
RECURSIVE Cat(_)
Cat(ss) == IF ss = <<>> THEN "" ELSE Head(ss) \o Cat(Tail(ss))

\* the strings made of at most n tokens of T
TokenStrings(T, n) == {Cat(ts) : ts \in UNION {[1..k -> T] : k \in 0..n}}

-----------------------------------------------------------------------------
(* mapping/nets.rs                                                         *)

NetTypes == {"Power", "Ground", "DiffPairP", "DiffPairN", "Signal"}

\* one entry per pattern, in the order of the vector: does it match name?
POWER_PATTERNS(name) ==
    LET f == Fold(name)
        d == DigitRun(name, 1)
        e == DigitRun(name, 2)
    IN  << \E p \in {"vcc", "vdd", "vbat", "vin", "vout", "vbus"} : starts_with(f, p),
           starts_with(name, "+") /\ e >= 1 /\ At(f, e + 2) = "v",
           d >= 1 /\ At(f, d + 1) = "v",
           starts_with(f, "pwr"),
           ends_with(f, "_pwr"),
           starts_with(f, "vref"),
           starts_with(f, "avdd"),
           starts_with(f, "dvdd") >>

GROUND_PATTERNS(name) ==
    LET f == Fold(name)
    IN  << starts_with(f, "gnd"),
           starts_with(f, "vss") \/ starts_with(f, "vee"),
           starts_with(f, "dgnd"),
           starts_with(f, "agnd"),
           starts_with(f, "pgnd"),
           starts_with(f, "sgnd"),
           ends_with(f, "_gnd"),
           f = "0v" >>

DIFFPAIR_P_PATTERNS(name) ==
    LET f == Fold(name)
    IN  << ends_with(f, "_p") \/ ends_with(f, "-p"),
           ends_with(f, "_+") \/ ends_with(f, "-+"),
           ends_with(f, "_dp"),
           ends_with(f, "_pos") >>

DIFFPAIR_N_PATTERNS(name) ==
    LET f == Fold(name)
    IN  << ends_with(f, "_n") \/ ends_with(f, "-n"),
           ends_with(f, "_-") \/ ends_with(f, "--"),
           ends_with(f, "_dn"),
           ends_with(f, "_neg") >>

AnyMatch(ms) == \E i \in 1..Len(ms) : ms[i]

\* An infer_net_type that tests the rule sets on every name.
infer_net_type_NoSkip(name) ==
    IF AnyMatch(GROUND_PATTERNS(name)) THEN "Ground"
    ELSE IF AnyMatch(POWER_PATTERNS(name)) THEN "Power"
    ELSE IF AnyMatch(DIFFPAIR_P_PATTERNS(name)) THEN "DiffPairP"
    ELSE IF AnyMatch(DIFFPAIR_N_PATTERNS(name)) THEN "DiffPairN"
    ELSE "Signal"

infer_net_type_PowerFirst(name) ==
    IF name = "" \/ starts_with(name, "unconnected-") THEN "Signal"
    ELSE IF AnyMatch(POWER_PATTERNS(name)) THEN "Power"
    ELSE IF AnyMatch(GROUND_PATTERNS(name)) THEN "Ground"
    ELSE IF AnyMatch(DIFFPAIR_P_PATTERNS(name)) THEN "DiffPairP"
    ELSE IF AnyMatch(DIFFPAIR_N_PATTERNS(name)) THEN "DiffPairN"
    ELSE "Signal"

infer_net_type(name) ==
    IF name = "" \/ starts_with(name, "unconnected-") THEN "Signal"
    ELSE IF AnyMatch(GROUND_PATTERNS(name)) THEN "Ground"
    ELSE IF AnyMatch(POWER_PATTERNS(name)) THEN "Power"
    ELSE IF AnyMatch(DIFFPAIR_P_PATTERNS(name)) THEN "DiffPairP"
    ELSE IF AnyMatch(DIFFPAIR_N_PATTERNS(name)) THEN "DiffPairN"
    ELSE "Signal"

net_type_constructor(net_type) ==
    CASE net_type = "Power" -> "Power"
      [] net_type = "Ground" -> "Ground"
      [] OTHER -> "Net"

-----------------------------------------------------------------------------
(* The net classifier, applied to one net name                             *)

MaxNetTokens == 3

NetTokens ==
    {"GND", "gnd", "V", "SS", "CC", "_PWR", "_GND", "+", "3", "0V",
     "unconnected-", "_P", "-N", "x"}

NetNames == TokenStrings(NetTokens, MaxNetTokens)

InitNets ==
    /\ pc = "call"
    /\ op = "infer_net_type"
    /\ arg \in [name : NetNames]
    /\ ret = NoRet
    /\ ret2 = NoRet

InferNetType ==
    /\ pc = "call"
    /\ op = "infer_net_type"
    /\ ret' = infer_net_type(arg.name)
    /\ pc' = "ret"
    /\ UNCHANGED <<op, arg, ret2>>

NextNets == InferNetType

SpecNets == InitNets /\ [][NextNets]_vars

Classified == pc = "ret" /\ op = "infer_net_type"

MatchesGround(name) == AnyMatch(GROUND_PATTERNS(name))
MatchesPower(name) == AnyMatch(POWER_PATTERNS(name))
Connected(name) == name # "" /\ ~starts_with(name, "unconnected-")

\* C1: infer_net_type returns one of the five roles, and a non-empty,
\* non-unconnected name that matches a ground rule is ground, also when it
\* matches a power rule.
C1_GroundBeforePower ==
    Classified =>
        /\ ret \in NetTypes
        /\ (Connected(arg.name) /\ MatchesGround(arg.name)) => ret = "Ground"

\* a name matching a ground rule and a power rule has been classified
C1_Witness ==
    /\ Classified
    /\ Connected(arg.name)
    /\ MatchesGround(arg.name)
    /\ MatchesPower(arg.name)
    /\ ret = "Ground"

-----------------------------------------------------------------------------
(* mapping/values.rs                                                       *)

ComponentTypes == {"Resistor", "Capacitor", "Inductor", "Other"}

\* str::len: the length of s in bytes of UTF-8
RECURSIVE ByteLen(_)
ByteLen(s) ==
    IF s = "" THEN 0
    ELSE (IF Head(s) \in {U03BC, U00B5, U00E9, U0663} THEN 2 ELSE 1) + ByteLen(Tail(s))

\* the number of characters of s that satisfy P
RECURSIVE Count(_, _)
Count(P(_), s) == IF s = "" THEN 0 ELSE (IF P(Head(s)) THEN 1 ELSE 0) + Count(P, Tail(s))

From(s, i) == IF i > Len(s) THEN "" ELSE SubSeq(s, i, Len(s))

\* the n characters of s from position i on, or as many as there are
Sub(s, i, n) == IF i > Len(s) THEN "" ELSE SubSeq(s, i, IF i + n - 1 <= Len(s) THEN i + n - 1 ELSE Len(s))

\* the length of the match of \d+(?:\.\d+)? at position i of s, whose leading digit run
\* has length w; 0 when there is none
NumberRunFrom(s, i, w) ==
    IF w >= 1 /\ At(s, i + w) = "." /\ DigitRun(s, i + w + 1) >= 1
    THEN w + 1 + DigitRun(s, i + w + 1)
    ELSE w

NumberRun(s, i) == NumberRunFrom(s, i, DigitRun(s, i))

NoMatch == [matched |-> FALSE]

\* (?:\s*[oO]hm)?s?$ on the case-folded rest of a value
UnitTail(rest) == rest \in {"", "s"} \/ From(rest, SpaceRun(rest, 1) + 1) \in {"ohm", "ohms"}

\* RESISTOR_SHORTHAND on a value whose leading digit run has length w and whose digit
\* run after the multiplier has length d
ShorthandCaptures(value, w, d) ==
    IF w >= 1 /\ Fold(At(value, w + 1)) \in {"k", "m"} /\ UnitTail(Fold(From(value, w + 2 + d)))
    THEN [matched |-> TRUE, g1 |-> SubSeq(value, 1, w), g2 |-> At(value, w + 1),
          g3 |-> Sub(value, w + 2, d)]
    ELSE NoMatch

ShorthandDecimal(value, w) == ShorthandCaptures(value, w, DigitRun(value, w + 2))

\* (?i)^(\d+)([kKmM])(\d*)(?:\s*[oO]hm)?s?$
RESISTOR_SHORTHAND(value) == ShorthandDecimal(value, DigitRun(value, 1))

\* the optional prefix letter of RESISTOR_EXPLICIT at position i of value
ExplicitPrefix(value, i) ==
    IF At(value, i) # "" /\ Fold(At(value, i)) \in {"k", "m", "g", U03BC, "u"}
    THEN At(value, i) ELSE ""

\* RESISTOR_EXPLICIT on a value whose number has length n, followed by the prefix p at
\* position i
ExplicitCaptures(value, n, i, p) ==
    IF n >= 1 /\ Fold(Sub(value, i + Len(p) + SpaceRun(value, i + Len(p)), 3)) = "ohm"
    THEN [matched |-> TRUE, g1 |-> SubSeq(value, 1, n), g2 |-> p]
    ELSE NoMatch

ExplicitAt(value, n, i) == ExplicitCaptures(value, n, i, ExplicitPrefix(value, i))

ExplicitNumber(value, n) == ExplicitAt(value, n, n + 1 + SpaceRun(value, n + 1))

\* (?i)^(\d+(?:\.\d+)?)\s*([kmg<U+03BC>u]?)\s*[oO]hm
RESISTOR_EXPLICIT(value) == ExplicitNumber(value, NumberRun(value, 1))

\* ^(\d+(?:\.\d+)?)$
RESISTOR_PLAIN(value) == value # "" /\ NumberRun(value, 1) = Len(value)

\* (?i)^(\d+(?:\.\d+)?)\s*([pnu<U+03BC>m]) on a value whose number has length n and whose
\* prefix letter stands at position i; next is the position after the prefix letter
PrefixedCaptures(value, n, i) ==
    IF n >= 1 /\ At(value, i) # "" /\ Fold(At(value, i)) \in {"p", "n", "u", U03BC, "m"}
    THEN [matched |-> TRUE, g1 |-> SubSeq(value, 1, n), g2 |-> At(value, i), next |-> i + 1]
    ELSE [matched |-> FALSE, next |-> 0]

PrefixedAt(value, n) == PrefixedCaptures(value, n, n + 1 + SpaceRun(value, n + 1))

PrefixedNumber(value) == PrefixedAt(value, NumberRun(value, 1))

\* the match m of the common head, when the rest of the value is nothing or the unit letter
UnitOptionalAtEnd(value, m, unit) ==
    IF m.matched /\ Fold(From(value, m.next)) \in {"", unit} THEN m ELSE NoMatch

\* the match m of the common head, when the unit letter follows it
UnitFollows(value, m, unit) ==
    IF m.matched /\ Fold(At(value, m.next)) = unit THEN m ELSE NoMatch

\* (?i)^(\d+(?:\.\d+)?)\s*([pnu<U+03BC>m])[fF]?$
CAPACITOR_SHORTHAND(value) == UnitOptionalAtEnd(value, PrefixedNumber(value), "f")

\* (?i)^(\d+(?:\.\d+)?)\s*([pnu<U+03BC>m])[fF]
CAPACITOR_EXPLICIT(value) == UnitFollows(value, PrefixedNumber(value), "f")

\* (?i)^(\d+(?:\.\d+)?)\s*([pnu<U+03BC>m])[hH]?$
INDUCTOR_SHORTHAND(value) == UnitOptionalAtEnd(value, PrefixedNumber(value), "h")

looks_like_mpn(value) ==
    \/ contains(value, "-") /\ ByteLen(value) > 4
    \/ ByteLen(value) > 8 /\ Count(is_alphabetic, value) > 3

ShorthandPrefix_Milli(multiplier) ==
    CASE multiplier = "k" -> "k"
      [] multiplier = "m" -> "m"
      [] OTHER -> ""

\* the match arm of normalize_resistor_value for a shorthand multiplier, already lowercased
ShorthandPrefix(multiplier) ==
    CASE multiplier = "k" -> "k"
      [] multiplier = "m" -> "M"
      [] OTHER -> ""

\* the match arm of normalize_resistor_value for an explicit prefix, already lowercased
ExplicitPrefixNormalized(prefix) ==
    CASE prefix = "k" -> "k"
      [] prefix = "m" -> "M"
      [] prefix = "g" -> "G"
      [] prefix \in {U03BC, "u"} -> "u"
      [] OTHER -> ""

\* the match arms shared by the capacitor and inductor normalisers, prefix already lowercased
PrefixNormalized(prefix) ==
    CASE prefix = "p" -> "p"
      [] prefix = "n" -> "n"
      [] prefix \in {"u", U03BC} -> "u"
      [] prefix = "m" -> "m"
      [] OTHER -> ""

FormatShorthand(whole, prefix, decimal) ==
    IF decimal = "" THEN whole \o prefix \o "ohm"
    ELSE whole \o "." \o decimal \o prefix \o "ohm"

\* normalize_resistor_value, given the captures of its first two patterns
ResistorFrom(value, sh, ex) ==
    IF sh.matched
    THEN FormatShorthand(sh.g1, ShorthandPrefix(to_lowercase(sh.g2)), sh.g3)
    ELSE IF ex.matched
    THEN ex.g1 \o ExplicitPrefixNormalized(to_lowercase(ex.g2)) \o "ohm"
    ELSE IF RESISTOR_PLAIN(value) THEN value \o "ohm"
    ELSE value

normalize_resistor_value(value) ==
    ResistorFrom(value, RESISTOR_SHORTHAND(value), RESISTOR_EXPLICIT(value))

\* normalize_capacitor_value, given the captures of its two patterns
CapacitorFrom(value, sh, ex) ==
    IF sh.matched THEN sh.g1 \o PrefixNormalized(to_lowercase(sh.g2)) \o "F"
    ELSE IF ex.matched THEN ex.g1 \o PrefixNormalized(to_lowercase(ex.g2)) \o "F"
    ELSE value

normalize_capacitor_value(value) ==
    CapacitorFrom(value, CAPACITOR_SHORTHAND(value), CAPACITOR_EXPLICIT(value))

\* normalize_inductor_value, given the captures of its pattern
InductorFrom(value, sh) ==
    IF sh.matched THEN sh.g1 \o PrefixNormalized(to_lowercase(sh.g2)) \o "H" ELSE value

normalize_inductor_value(value) == InductorFrom(value, INDUCTOR_SHORTHAND(value))

NormalizeTrimmed_NoMpnCheck(value, component_type) ==
    CASE component_type = "Resistor" -> normalize_resistor_value(value)
      [] component_type = "Capacitor" -> normalize_capacitor_value(value)
      [] component_type = "Inductor" -> normalize_inductor_value(value)
      [] OTHER -> value

\* normalize_value after the trim
NormalizeTrimmed(value, component_type) ==
    IF looks_like_mpn(value) THEN value
    ELSE CASE component_type = "Resistor" -> normalize_resistor_value(value)
           [] component_type = "Capacitor" -> normalize_capacitor_value(value)
           [] component_type = "Inductor" -> normalize_inductor_value(value)
           [] OTHER -> value

normalize_value(value, component_type) == NormalizeTrimmed(trim(value), component_type)

-----------------------------------------------------------------------------
(* The value normaliser, applied to one value and then to its own result   *)

MaxValueTokens == 3

ValueTokens ==
    {"4", "4.7", "7", "k", "M", "m", U03BC, U00B5, "ohm", "kOhm", "F", "H", " ", "s",
     "%", "ERJ-2RKF1003X"}

Values == TokenStrings(ValueTokens, MaxValueTokens)

InitValues ==
    /\ pc = "call"
    /\ op = "normalize_value"
    /\ arg \in [value : Values, component_type : ComponentTypes]
    /\ ret = NoRet
    /\ ret2 = NoRet

NormalizeValue ==
    /\ pc = "call"
    /\ op = "normalize_value"
    /\ ret' = normalize_value(arg.value, arg.component_type)
    /\ pc' = "ret"
    /\ UNCHANGED <<op, arg, ret2>>

Renormalize ==
    /\ pc = "ret"
    /\ op = "normalize_value"
    /\ ret2' = normalize_value(ret, arg.component_type)
    /\ pc' = "ret2"
    /\ UNCHANGED <<op, arg, ret>>

NextValues == NormalizeValue \/ Renormalize

SpecValues == InitValues /\ [][NextValues]_vars

\* C2: normalising a normalised value again, for the same kind, returns it unchanged.
C2_Idempotent == (pc = "ret2" /\ op = "normalize_value") => ret2 = ret

\* a resistor value that the first pass rewrote has been normalised twice
C2_Witness ==
    /\ pc = "ret2"
    /\ op = "normalize_value"
    /\ arg.component_type = "Resistor"
    /\ arg.value = "4k7"
    /\ ret = "4.7kohm"
    /\ ret2 = ret

Normalized == pc \in {"ret", "ret2"} /\ op = "normalize_value"

AllDigits(s) == \A i \in 1..Len(s) : IsDigit(At(s, i))
Blank(s) == \A i \in 1..Len(s) : is_whitespace(At(s, i))

\* <digits> or <digits>.<digits>
IsNumber(s) ==
    \E i \in 1..Len(s) :
        /\ AllDigits(SubSeq(s, 1, i))
        /\ \/ i = Len(s)
           \/ At(s, i + 1) = "." /\ i + 2 <= Len(s) /\ AllDigits(From(s, i + 2))

\* nothing, "s", or a unit "ohm"/"ohms" after optional blanks, in any case
UnitSuffix(s) ==
    \/ Fold(s) \in {"", "s"}
    \/ \E k \in 0..Len(s) : Blank(SubSeq(s, 1, k)) /\ Fold(From(s, k + 1)) \in {"ohm", "ohms"}

\* v is <whole><k|M><decimal> with an optional unit suffix, and Q holds of its canonical form
ShorthandForm(v, Q(_)) ==
    \E i \in 1..Len(v) : \E j \in (i + 1)..Len(v) :
        /\ AllDigits(SubSeq(v, 1, i))
        /\ Fold(At(v, i + 1)) \in {"k", "m"}
        /\ AllDigits(SubSeq(v, i + 2, j))
        /\ UnitSuffix(From(v, j + 1))
        /\ Q(SubSeq(v, 1, i)
               \o (IF j > i + 1 THEN "." \o SubSeq(v, i + 2, j) ELSE "")
               \o (IF Fold(At(v, i + 1)) = "k" THEN "k" ELSE "M")
               \o "ohm")

\* the canonical spelling of a metric prefix letter of a resistance
CanonicalPrefix(c) ==
    CASE Fold(c) = "k" -> "k"
      [] Fold(c) = "m" -> "M"
      [] Fold(c) = "g" -> "G"
      [] Fold(c) \in {"u", U03BC} -> "u"
      [] OTHER -> ""

\* v starts with <number><prefix>Ohm, blanks allowed around the prefix, and Q holds of
\* its canonical form
ExplicitForm(v, Q(_)) ==
    \E n \in 1..Len(v) : \E a \in 0..(Len(v) - n) : \E p \in {0, 1} : \E b \in 0..(Len(v) - n) :
        /\ IsNumber(SubSeq(v, 1, n))
        /\ Blank(Sub(v, n + 1, a))
        /\ p = 1 => Fold(At(v, n + a + 1)) \in {"k", "m", "g", "u", U03BC}
        /\ Blank(Sub(v, n + a + p + 1, b))
        /\ n + a + p + b + 3 <= Len(v)
        /\ Fold(Sub(v, n + a + p + b + 1, 3)) = "ohm"
        /\ Q(SubSeq(v, 1, n) \o (IF p = 1 THEN CanonicalPrefix(At(v, n + a + 1)) ELSE "") \o "ohm")

AnyForm(o) == TRUE
IsRet(o) == o = ret

\* C8: a resistor value that is not a part number is rewritten to the canonical form
\* of its shorthand, explicit-unit or bare-number form, and returned unchanged when it
\* has none of these forms.
C8_ResistorForms ==
    LET v == trim(arg.value)
    IN  (Normalized /\ arg.component_type = "Resistor" /\ ~looks_like_mpn(v)) =>
            IF ShorthandForm(v, AnyForm) THEN ShorthandForm(v, IsRet)
            ELSE IF ExplicitForm(v, AnyForm) THEN ExplicitForm(v, IsRet)
            ELSE IF IsNumber(v) THEN ret = v \o "ohm"
            ELSE ret = v

-----------------------------------------------------------------------------
(* emit/emitter.rs, emit/idiomatic.rs: identifiers                         *)

\* what the loop of sanitize_name pushes for the character ch at index i (from 1)
SanitizeChar(ch, i) ==
    IF is_alphanumeric(ch) \/ ch = "_"
    THEN IF i = 1 /\ is_numeric(ch) THEN "_" \o ch ELSE ch
    ELSE "_"

\* the loop of sanitize_name from index i on
RECURSIVE SanitizeFrom(_, _)
SanitizeFrom(name, i) ==
    IF i > Len(name) THEN ""
    ELSE SanitizeChar(At(name, i), i) \o SanitizeFrom(name, i + 1)

ReservedWords == {"and", "or", "not", "if", "else", "for", "in", "true", "false", "none"}

HandleReserved(result) ==
    IF to_lowercase(result) \in ReservedWords THEN result \o "_" ELSE result

NetIfEmpty(result) == IF result = "" THEN "net" ELSE result

\* emitter.rs
sanitize_name(name) == NetIfEmpty(HandleReserved(SanitizeFrom(name, 1)))

\* idiomatic.rs
sanitize_net_name(name) == NetIfEmpty(HandleReserved(SanitizeFrom(name, 1)))

-----------------------------------------------------------------------------
(* The two sanitizers, each applied to one name                            *)

MaxNameTokens == 3

NameTokens ==
    {"a", "Z", "3", "_", "+", "-", " ", ".", U00E9, U00B5, U0663, "if", "No", "ne", "FOR"}

Names == TokenStrings(NameTokens, MaxNameTokens)

InitSanitize ==
    /\ pc = "call"
    /\ op \in {"sanitize_name", "sanitize_net_name"}
    /\ arg \in Names
    /\ ret = NoRet
    /\ ret2 = NoRet

SanitizeName ==
    /\ pc = "call"
    /\ op = "sanitize_name"
    /\ ret' = sanitize_name(arg)
    /\ pc' = "ret"
    /\ UNCHANGED <<op, arg, ret2>>

SanitizeNetName ==
    /\ pc = "call"
    /\ op = "sanitize_net_name"
    /\ ret' = sanitize_net_name(arg)
    /\ pc' = "ret"
    /\ UNCHANGED <<op, arg, ret2>>

\* a second call on the same name
SanitizeAgain ==
    /\ pc = "ret"
    /\ op \in {"sanitize_name", "sanitize_net_name"}
    /\ ret2' = IF op = "sanitize_name" THEN sanitize_name(arg) ELSE sanitize_net_name(arg)
    /\ pc' = "ret2"
    /\ UNCHANGED <<op, arg, ret>>

NextSanitize == SanitizeName \/ SanitizeNetName \/ SanitizeAgain

SpecSanitize == InitSanitize /\ [][NextSanitize]_vars

IsAsciiWord(c) == IsAsciiUpper(c) \/ IsAsciiLower(c) \/ IsAsciiDigit(c) \/ c = "_"

\* ^[A-Za-z_][A-Za-z0-9_]*$
MatchesIdentifier(s) ==
    /\ s # ""
    /\ ~IsAsciiDigit(At(s, 1))
    /\ \A i \in 1..Len(s) : IsAsciiWord(At(s, i))

Sanitized == pc \in {"ret", "ret2"} /\ op \in {"sanitize_name", "sanitize_net_name"}

\* C3: for every net name, non-ASCII letters and digits included, the sanitized
\* identifier matches ^[A-Za-z_][A-Za-z0-9_]*$, and a second call on the same name
\* yields the same identifier.
C3_IdentifierPattern ==
    /\ Sanitized => MatchesIdentifier(ret)
    /\ (Sanitized /\ pc = "ret2") => ret2 = ret

-----------------------------------------------------------------------------
(* mapping/footprints.rs: the package of a footprint                       *)

\* the index of the last occurrence of the character c in s at or before i, or 0
RECURSIVE LastIndexOf(_, _, _)
LastIndexOf(s, c, i) ==
    IF i < 1 THEN 0 ELSE IF At(s, i) = c THEN i ELSE LastIndexOf(s, c, i - 1)

\* the index of the first occurrence of the character c in s at or after i, or Len(s) + 1
RECURSIVE FirstIndexOf(_, _, _)
FirstIndexOf(s, c, i) ==
    IF i > Len(s) THEN Len(s) + 1 ELSE IF At(s, i) = c THEN i ELSE FirstIndexOf(s, c, i + 1)

\* footprint.split(':').next()
FirstSegment(footprint) == Sub(footprint, 1, FirstIndexOf(footprint, ":", 1) - 1)

\* footprint.split(':').last()
LastSegment(footprint) == From(footprint, LastIndexOf(footprint, ":", Len(footprint)) + 1)

\* (\d{4})<sep>\d+<word> after the first n characters of name
SizeCapture(name, n, sep, word) ==
    IF /\ DigitRun(name, n + 1) = 4
       /\ At(name, n + 5) = sep
       /\ DigitRun(name, n + 6) >= 1
       /\ Sub(name, n + 6 + DigitRun(name, n + 6), Len(word)) = word
    THEN [matched |-> TRUE, g1 |-> Sub(name, n + 1, 4)]
    ELSE NoMatch

\* <prefix>\d+ at the start of name, captured from position from on
NumberedCapture(name, prefix, from) ==
    IF starts_with(name, prefix) /\ DigitRun(name, Len(prefix) + 1) >= 1
    THEN [matched |-> TRUE,
          g1 |-> SubSeq(name, from, Len(prefix) + DigitRun(name, Len(prefix) + 1))]
    ELSE NoMatch

\* the captures of name by the patterns of PACKAGE_PATTERNS, in their order
PACKAGE_PATTERNS(name) ==
    << \* ^[RCL]_(\d{4})_\d+Metric
       IF At(name, 1) \in {"R", "C", "L"} /\ At(name, 2) = "_"
       THEN SizeCapture(name, 2, "_", "Metric") ELSE NoMatch,
       \* ^LED_(\d{4})_\d+Metric
       IF starts_with(name, "LED_") THEN SizeCapture(name, 4, "_", "Metric") ELSE NoMatch,
       \* ^L_(\d{4})_\d+Metric
       IF starts_with(name, "L_") THEN SizeCapture(name, 2, "_", "Metric") ELSE NoMatch,
       \* ^Crystal_SMD_(\d{4})-\d+Pin
       IF starts_with(name, "Crystal_SMD_") THEN SizeCapture(name, 12, "-", "Pin") ELSE NoMatch,
       \* ^D_(\d{4})$
       IF starts_with(name, "D_") /\ DigitRun(name, 3) = 4 /\ Len(name) = 6
       THEN [matched |-> TRUE, g1 |-> Sub(name, 3, 4)] ELSE NoMatch,
       \* ^D_(SOD-\d+)
       NumberedCapture(name, "D_SOD-", 3),
       \* ^(SOT-\d+)
       NumberedCapture(name, "SOT-", 1),
       \* ^(QFN-\d+|DFN-\d+)
       IF starts_with(name, "QFN-") THEN NumberedCapture(name, "QFN-", 1)
       ELSE NumberedCapture(name, "DFN-", 1),
       \* ^(SOIC-\d+)
       NumberedCapture(name, "SOIC-", 1),
       \* ^(TSSOP-\d+)
       NumberedCapture(name, "TSSOP-", 1) >>

\* Option: None is the empty sequence, Some(x) the sequence of x alone
None == <<>>
Some(x) == <<x>>

\* the loop of extract_package over the captures, from pattern i on
RECURSIVE FirstCapture(_, _)
FirstCapture(caps, i) ==
    IF i > Len(caps) THEN None
    ELSE IF caps[i].matched THEN Some(caps[i].g1)
    ELSE FirstCapture(caps, i + 1)

extract_package(footprint) == FirstCapture(PACKAGE_PATTERNS(LastSegment(footprint)), 1)

-----------------------------------------------------------------------------
(* extract_package, applied to one footprint                               *)

MaxFootprintTokens == 3

FootprintTokens ==
    {"Resistor_SMD:", "Custom:", "MyFootprint", "R_0402_", "LED_0805_", "L_1206_",
     "1005Metric", "Crystal_SMD_3215-", "2Pin", "D_0603", "D_SOD-", "SOT-23", "DFN-",
     "SOIC-8", "5", "_3.9x4.9mm"}

Footprints == TokenStrings(FootprintTokens, MaxFootprintTokens)

InitPackage ==
    /\ pc = "call"
    /\ op = "extract_package"
    /\ arg \in Footprints
    /\ ret = NoRet
    /\ ret2 = NoRet

ExtractPackage ==
    /\ pc = "call"
    /\ op = "extract_package"
    /\ ret' = extract_package(arg)
    /\ pc' = "ret"
    /\ UNCHANGED <<op, arg, ret2>>

NextPackage == ExtractPackage

SpecPackage == InitPackage /\ [][NextPackage]_vars

\* the part of footprint after its last ':', all of it when it has none
Unprefixed(footprint) ==
    CHOOSE name \in {From(footprint, i) : i \in 1..(Len(footprint) + 1)} :
        /\ ~contains(name, ":")
        /\ Len(name) = Len(footprint) \/ At(footprint, Len(footprint) - Len(name)) = ":"

\* the patterns that matched, by their positions in the captures
Matching(caps) == {i \in 1..Len(caps) : caps[i].matched}

FirstOf(S) == CHOOSE i \in S : \A j \in S : i <= j

\* the capture of the first of the patterns M that matched, if any
CaptureOfFirst(caps, M) == IF M = {} THEN None ELSE Some(caps[FirstOf(M)].g1)

FirstMatchCapture(caps) == CaptureOfFirst(caps, Matching(caps))

Extracted == pc = "ret" /\ op = "extract_package"

\* C9: extract_package strips the library prefix (all up to the last ':'), tries the
\* patterns in their order and returns the capture of the first that matches, and no
\* package when none matches; "Resistor_SMD:R_0402_1005Metric" gives "0402" and
\* "Custom:MyFootprint" gives none.
C9_FirstPatternCapture ==
    Extracted =>
        /\ ret = FirstMatchCapture(PACKAGE_PATTERNS(Unprefixed(arg)))
        /\ arg = "Resistor_SMD:R_0402_1005Metric" => ret = Some("0402")
        /\ arg = "Custom:MyFootprint" => ret = None

\* a footprint with two library prefixes whose last part names a package
C9_Witness ==
    /\ Extracted
    /\ arg = "Custom:Resistor_SMD:D_0603"
    /\ ret = Some("0603")

-----------------------------------------------------------------------------
(* mapping/symbols.rs: the generic module of a symbol                      *)

\* the entries of SYMBOL_MAP, in declaration order
SYMBOL_MAP ==
    <<
       [kind |-> "Exact", s |-> "Device:R",
        info |-> [module_path |-> "@stdlib/generics/Resistor.zen", module_name |-> "Resistor",
                 pin_map |-> <<<<"1", "P1">>, <<"2", "P2">>>>,
                 flags |-> <<>>]],
       [kind |-> "Exact", s |-> "Device:R_Small",
        info |-> [module_path |-> "@stdlib/generics/Resistor.zen", module_name |-> "Resistor",
                 pin_map |-> <<<<"1", "P1">>, <<"2", "P2">>>>,
                 flags |-> <<>>]],
       [kind |-> "Exact", s |-> "Device:C",
        info |-> [module_path |-> "@stdlib/generics/Capacitor.zen", module_name |-> "Capacitor",
                 pin_map |-> <<<<"1", "P1">>, <<"2", "P2">>>>,
                 flags |-> <<>>]],
       [kind |-> "Exact", s |-> "Device:C_Small",
        info |-> [module_path |-> "@stdlib/generics/Capacitor.zen", module_name |-> "Capacitor",
                 pin_map |-> <<<<"1", "P1">>, <<"2", "P2">>>>,
                 flags |-> <<>>]],
       [kind |-> "Exact", s |-> "Device:C_Polarized",
        info |-> [module_path |-> "@stdlib/generics/Capacitor.zen", module_name |-> "Capacitor",
                 pin_map |-> <<<<"1", "P1">>, <<"2", "P2">>>>,
                 flags |-> <<<<"polarized", "true">>>>]],
       [kind |-> "Exact", s |-> "Device:C_Polarized_Small",
        info |-> [module_path |-> "@stdlib/generics/Capacitor.zen", module_name |-> "Capacitor",
                 pin_map |-> <<<<"1", "P1">>, <<"2", "P2">>>>,
                 flags |-> <<<<"polarized", "true">>>>]],
       [kind |-> "Exact", s |-> "Device:L",
        info |-> [module_path |-> "@stdlib/generics/Inductor.zen", module_name |-> "Inductor",
                 pin_map |-> <<<<"1", "P1">>, <<"2", "P2">>>>,
                 flags |-> <<>>]],
       [kind |-> "Exact", s |-> "Device:L_Small",
        info |-> [module_path |-> "@stdlib/generics/Inductor.zen", module_name |-> "Inductor",
                 pin_map |-> <<<<"1", "P1">>, <<"2", "P2">>>>,
                 flags |-> <<>>]],
       [kind |-> "Exact", s |-> "Device:D",
        info |-> [module_path |-> "@stdlib/generics/Diode.zen", module_name |-> "Diode",
                 pin_map |-> <<<<"1", "K">>, <<"2", "A">>>>,
                 flags |-> <<>>]],
       [kind |-> "Exact", s |-> "Device:D_Small",
        info |-> [module_path |-> "@stdlib/generics/Diode.zen", module_name |-> "Diode",
                 pin_map |-> <<<<"1", "K">>, <<"2", "A">>>>,
                 flags |-> <<>>]],
       [kind |-> "Exact", s |-> "Device:D_Zener",
        info |-> [module_path |-> "@stdlib/generics/Diode.zen", module_name |-> "Diode",
                 pin_map |-> <<<<"1", "K">>, <<"2", "A">>>>,
                 flags |-> <<<<"diode_type", "\"zener\"">>>>]],
       [kind |-> "Exact", s |-> "Device:D_Schottky",
        info |-> [module_path |-> "@stdlib/generics/Diode.zen", module_name |-> "Diode",
                 pin_map |-> <<<<"1", "K">>, <<"2", "A">>>>,
                 flags |-> <<<<"diode_type", "\"schottky\"">>>>]],
       [kind |-> "Exact", s |-> "Device:LED",
        info |-> [module_path |-> "@stdlib/generics/Led.zen", module_name |-> "Led",
                 pin_map |-> <<<<"1", "K">>, <<"2", "A">>>>,
                 flags |-> <<>>]],
       [kind |-> "Exact", s |-> "Device:LED_Small",
        info |-> [module_path |-> "@stdlib/generics/Led.zen", module_name |-> "Led",
                 pin_map |-> <<<<"1", "K">>, <<"2", "A">>>>,
                 flags |-> <<>>]],
       [kind |-> "Exact", s |-> "Device:Ferrite_Bead",
        info |-> [module_path |-> "@stdlib/generics/FerriteBead.zen", module_name |-> "FerriteBead",
                 pin_map |-> <<<<"1", "P1">>, <<"2", "P2">>>>,
                 flags |-> <<>>]],
       [kind |-> "Exact", s |-> "Device:Ferrite_Bead_Small",
        info |-> [module_path |-> "@stdlib/generics/FerriteBead.zen", module_name |-> "FerriteBead",
                 pin_map |-> <<<<"1", "P1">>, <<"2", "P2">>>>,
                 flags |-> <<>>]],
       [kind |-> "Exact", s |-> "Device:Crystal",
        info |-> [module_path |-> "@stdlib/generics/Crystal.zen", module_name |-> "Crystal",
                 pin_map |-> <<<<"1", "P1">>, <<"2", "P2">>>>,
                 flags |-> <<>>]],
       [kind |-> "Exact", s |-> "Device:Crystal_Small",
        info |-> [module_path |-> "@stdlib/generics/Crystal.zen", module_name |-> "Crystal",
                 pin_map |-> <<<<"1", "P1">>, <<"2", "P2">>>>,
                 flags |-> <<>>]],
       [kind |-> "Exact", s |-> "Device:Crystal_GND24",
        info |-> [module_path |-> "@stdlib/generics/Crystal.zen", module_name |-> "Crystal",
                 pin_map |-> <<<<"1", "P1">>, <<"3", "P2">>, <<"2", "GND">>, <<"4", "GND">>>>,
                 flags |-> <<>>]],
       [kind |-> "Prefix", s |-> "Device:Thermistor",
        info |-> [module_path |-> "@stdlib/generics/Thermistor.zen", module_name |-> "Thermistor",
                 pin_map |-> <<<<"1", "P1">>, <<"2", "P2">>>>,
                 flags |-> <<>>]],
       [kind |-> "Prefix", s |-> "Device:Q_NPN",
        info |-> [module_path |-> "@stdlib/generics/Bjt.zen", module_name |-> "Bjt",
                 pin_map |-> <<<<"1", "B">>, <<"2", "C">>, <<"3", "E">>>>,
                 flags |-> <<<<"polarity", "\"NPN\"">>>>]],
       [kind |-> "Prefix", s |-> "Device:Q_PNP",
        info |-> [module_path |-> "@stdlib/generics/Bjt.zen", module_name |-> "Bjt",
                 pin_map |-> <<<<"1", "B">>, <<"2", "C">>, <<"3", "E">>>>,
                 flags |-> <<<<"polarity", "\"PNP\"">>>>]],
       [kind |-> "Prefix", s |-> "Device:Q_NMOS",
        info |-> [module_path |-> "@stdlib/generics/Mosfet.zen", module_name |-> "Mosfet",
                 pin_map |-> <<<<"1", "G">>, <<"2", "D">>, <<"3", "S">>>>,
                 flags |-> <<<<"channel", "\"N\"">>>>]],
       [kind |-> "Prefix", s |-> "Device:Q_PMOS",
        info |-> [module_path |-> "@stdlib/generics/Mosfet.zen", module_name |-> "Mosfet",
                 pin_map |-> <<<<"1", "G">>, <<"2", "D">>, <<"3", "S">>>>,
                 flags |-> <<<<"channel", "\"P\"">>>>]],
       [kind |-> "Prefix", s |-> "Connector:TestPoint",
        info |-> [module_path |-> "@stdlib/generics/TestPoint.zen", module_name |-> "TestPoint",
                 pin_map |-> <<<<"1", "P1">>>>,
                 flags |-> <<>>]]
    >>

\* SymbolPattern::matches, every pattern taken as a prefix
matches_AllPrefix(pattern, lib_id) == starts_with(lib_id, pattern.s)

\* SymbolPattern::matches
matches(pattern, lib_id) ==
    CASE pattern.kind = "Exact" -> lib_id = pattern.s
      [] pattern.kind = "Prefix" -> starts_with(lib_id, pattern.s)

\* the loop of map_symbol from entry i on
RECURSIVE MapSymbolFrom(_, _)
MapSymbolFrom(lib_id, i) ==
    IF i > Len(SYMBOL_MAP) THEN None
    ELSE IF matches(SYMBOL_MAP[i], lib_id) THEN Some(SYMBOL_MAP[i].info)
    ELSE MapSymbolFrom(lib_id, i + 1)

map_symbol(lib_id) == MapSymbolFrom(lib_id, 1)

-----------------------------------------------------------------------------
(* map_symbol, applied to one library id                                   *)

MaxSymbolTokens == 3

SymbolTokens ==
    {"Device:", "Connector:", "MCU:", "R", "C", "L", "D", "_Small", "_Polarized", "_Zener",
     "Q_NPN", "Q_NMOS", "_BEC", "Thermistor", "_NTC", "Crystal", "_GND24", "TestPoint",
     "LED", "STM32"}

LibIds == TokenStrings(SymbolTokens, MaxSymbolTokens)

InitSymbols ==
    /\ pc = "call"
    /\ op = "map_symbol"
    /\ arg \in LibIds
    /\ ret = NoRet
    /\ ret2 = NoRet

MapSymbol ==
    /\ pc = "call"
    /\ op = "map_symbol"
    /\ ret' = map_symbol(arg)
    /\ pc' = "ret"
    /\ UNCHANGED <<op, arg, ret2>>

NextSymbols == MapSymbol

SpecSymbols == InitSymbols /\ [][NextSymbols]_vars

\* the entries whose pattern matches lib_id: the whole id for an exact pattern, a
\* beginning of it for a prefix pattern
MatchingEntries(lib_id) ==
    {i \in 1..Len(SYMBOL_MAP) :
        \/ SYMBOL_MAP[i].kind = "Exact" /\ SYMBOL_MAP[i].s = lib_id
        \/ SYMBOL_MAP[i].kind = "Prefix" /\ \E n \in 0..Len(lib_id) :
                                               Sub(lib_id, 1, n) = SYMBOL_MAP[i].s}

\* the template of the first of the entries M
TemplateOfFirst(M) == IF M = {} THEN None ELSE Some(SYMBOL_MAP[FirstOf(M)].info)

Mapped == pc = "ret" /\ op = "map_symbol"

\* C10: map_symbol returns the template of the first entry, in declaration order, whose
\* pattern matches (exactly, or as a prefix), and None when no entry matches; "Device:R"
\* gives the resistor template with pins 1->P1, 2->P2 and no flags, "Device:C_Polarized"
\* the capacitor template with the flag polarized = true.
C10_FirstEntry ==
    Mapped =>
        /\ ret = TemplateOfFirst(MatchingEntries(arg))
        /\ arg = "Device:R" =>
               /\ ret # None
               /\ ret[1].module_name = "Resistor"
               /\ ret[1].pin_map = <<<<"1", "P1">>, <<"2", "P2">>>>
               /\ ret[1].flags = <<>>
        /\ arg = "Device:C_Polarized" =>
               /\ ret # None
               /\ ret[1].module_name = "Capacitor"
               /\ ret[1].flags = <<<<"polarized", "true">>>>

C10_Witness ==
    /\ Mapped
    /\ arg = "Device:C_Polarized"
    /\ ret = Some(SYMBOL_MAP[5].info)

-----------------------------------------------------------------------------
(* mapping/values.rs, mapping/footprints.rs: the kind of a component       *)

\* ComponentType::from_lib_id, on the lowercased library id
FromLowerLibId(lower) ==
    IF \/ contains(lower, ":r_") \/ contains(lower, ":r ")
       \/ ends_with(lower, ":r") \/ contains(lower, "resistor")
    THEN "Resistor"
    ELSE IF \/ contains(lower, ":c_") \/ contains(lower, ":c ")
            \/ ends_with(lower, ":c") \/ contains(lower, "capacitor")
    THEN "Capacitor"
    ELSE IF \/ contains(lower, ":l_") \/ contains(lower, ":l ")
            \/ ends_with(lower, ":l") \/ contains(lower, "inductor")
    THEN "Inductor"
    ELSE "Other"

from_lib_id(lib_id) == FromLowerLibId(to_lowercase(lib_id))

FootprintComponentTypes ==
    {"Resistor", "Capacitor", "Inductor", "Led", "Diode", "Transistor", "Crystal",
     "Connector", "Unknown"}

\* FootprintComponentType::module_path
module_path(t) ==
    IF t \in {"Resistor", "Capacitor", "Inductor", "Led", "Diode", "Crystal"}
    THEN Some("@stdlib/generics/" \o t \o ".zen")
    ELSE None

\* FootprintComponentType::module_name
module_name(t) ==
    IF t \in {"Resistor", "Capacitor", "Inductor", "Led", "Diode", "Crystal"}
    THEN Some(t)
    ELSE None

\* FootprintComponentType::pin_map
pin_map(t) ==
    CASE t \in {"Resistor", "Capacitor", "Inductor", "Crystal"} ->
             <<<<"1", "P1">>, <<"2", "P2">>>>
      [] t \in {"Led", "Diode"} -> <<<<"1", "K">>, <<"2", "A">>>>
      [] OTHER -> <<>>

\* infer_component_type, on the footprint name without its library and its lowercase
InferFromName(name, lower) ==
    IF starts_with(name, "R_") \/ contains(lower, "resistor") THEN "Resistor"
    ELSE IF starts_with(name, "C_") \/ contains(lower, "capacitor") THEN "Capacitor"
    ELSE IF starts_with(name, "L_") \/ contains(lower, "inductor") THEN "Inductor"
    ELSE IF starts_with(name, "LED_") \/ contains(lower, "led") THEN "Led"
    ELSE IF starts_with(name, "D_") \/ contains(lower, "diode") THEN "Diode"
    ELSE IF contains(lower, "crystal") THEN "Crystal"
    ELSE IF \/ contains(lower, "conn") \/ contains(lower, "pin_header")
            \/ contains(lower, "pin_socket")
    THEN "Connector"
    ELSE "Unknown"

InferFromSegment(name) == InferFromName(name, to_lowercase(name))

infer_component_type(footprint) == InferFromSegment(LastSegment(footprint))

\* infer_type_from_reference, on the alphabetic prefix of the reference
InferFromPrefix(prefix) ==
    CASE prefix = "R" -> "Resistor"
      [] prefix = "C" -> "Capacitor"
      [] prefix = "L" -> "Inductor"
      [] prefix = "D" -> "Diode"
      [] prefix = "Q" -> "Transistor"
      [] prefix \in {"Y", "X"} -> "Crystal"
      [] prefix \in {"J", "P"} -> "Connector"
      [] OTHER -> "Unknown"

infer_type_from_reference(reference) ==
    InferFromPrefix(Sub(reference, 1, Run(is_alphabetic, reference, 1)))

\* infer_component_type_combined, given what the footprint says
CombinedFrom(from_footprint, reference) ==
    IF from_footprint # "Unknown" THEN from_footprint
    ELSE infer_type_from_reference(reference)

infer_component_type_combined(footprint, reference) ==
    CombinedFrom(infer_component_type(footprint), reference)

-----------------------------------------------------------------------------
(* emit/emitter.rs: the output, line by line                               *)

\* GRAVE ACCENT, written "!" here: it cannot stand in a string of this notation
U0060 == "!"

\* the characters of the names below in the order of their UTF-8 bytes
ByteOrder ==
    " !\"#%&'()*+,-./0123456789:;<=>?@ABCDEFGHIJKLMNOPQRSTUVWXYZ[]_abcdefghijklmnopqrstuvwxyz{}"
        \o U00B5 \o U00E9 \o U03BC \o U0663

\* Ord for str: a is less than b
RECURSIVE StrLess(_, _)
StrLess(a, b) ==
    IF b = "" THEN FALSE
    ELSE IF a = "" THEN TRUE
    ELSE IF Head(a) = Head(b) THEN StrLess(Tail(a), Tail(b))
    ELSE IndexIn(ByteOrder, Head(a)) < IndexIn(ByteOrder, Head(b))

\* x put at its place in the sorted sequence
RECURSIVE Insert(_, _)
Insert(sorted, x) ==
    IF sorted = <<>> THEN <<x>>
    ELSE IF StrLess(x, Head(sorted)) THEN <<x>> \o sorted
    ELSE <<Head(sorted)>> \o Insert(Tail(sorted), x)

\* the elements in the order the iteration gave them
Unsorted(v) == v

\* Vec::sort of strings
RECURSIVE sort(_)
sort(v) == IF v = <<>> THEN <<>> ELSE Insert(sort(Tail(v)), Head(v))

\* a line of the output: its text, the statement that wrote it, and the net or the pads
\* it was written for
Line(text, kind) == [text |-> text, kind |-> kind, net |-> "", pads |-> <<>>]

NetLine(text, name) == [text |-> text, kind |-> "net", net |-> name, pads |-> <<>>]

PadLine(text, kind, pads) == [text |-> text, kind |-> kind, net |-> "", pads |-> pads]

BlankLine == Line("", "blank")

emit_header(name) ==
    << Line("# Auto-generated from KiCad project: " \o name, "header"),
       Line("# Import with: pcb import kicad <path>", "header"),
       BlankLine,
       Line("# " \o U0060 \o U0060 \o U0060 \o "pcb", "header"),
       Line("# [workspace]", "header"),
       Line("# pcb-version = \"0.3\"", "header"),
       Line("# " \o U0060 \o U0060 \o U0060, "header"),
       BlankLine >>

\* the names of emit_imports joined
Imports(has_power, has_ground) ==
    IF has_power /\ has_ground THEN "\"Power\", \"Ground\""
    ELSE IF has_power THEN "\"Power\""
    ELSE "\"Ground\""

ImportLines(has_power, has_ground) ==
    <<Line("load(\"@stdlib/board_config.zen\", \"Board\")", "import")>>
    \o (IF has_power \/ has_ground
        THEN <<Line("load(\"@stdlib/interfaces.zen\", " \o Imports(has_power, has_ground) \o ")",
                    "import")>>
        ELSE <<>>)
    \o <<BlankLine>>

\* nets: the map of collect_nets, a function from the names to their types
emit_imports(nets) ==
    ImportLines(\E n \in DOMAIN nets : nets[n] = "Power",
                \E n \in DOMAIN nets : nets[n] = "Ground")

\* str::trim_end_matches(".zen")
RECURSIVE trim_end_matches_zen(_)
trim_end_matches_zen(s) ==
    IF ends_with(s, ".zen") THEN trim_end_matches_zen(SubSeq(s, 1, Len(s) - 4)) ELSE s

\* path.rsplit('/').next()
AfterLastSlash(path) == From(path, LastIndexOf(path, "/", Len(path)) + 1)

AliasLine(path) ==
    Line(trim_end_matches_zen(AfterLastSlash(path)) \o " = Module(\"" \o path \o "\")", "alias")

RECURSIVE AliasLines(_)
AliasLines(sorted) ==
    IF sorted = <<>> THEN <<>> ELSE <<AliasLine(Head(sorted))>> \o AliasLines(Tail(sorted))

\* modules: the paths of the set in the order its iteration gives them
emit_module_aliases(modules) ==
    IF modules = <<>> THEN <<>> ELSE AliasLines(sort(modules)) \o <<BlankLine>>

Constructor_Plain(type) == "Net"

\* the match of emit_net_declarations
Constructor(type) ==
    CASE type = "Power" -> "Power"
      [] type = "Ground" -> "Ground"
      [] OTHER -> "Net"

Declaration(var, type, name) ==
    NetLine(var \o " = " \o Constructor(type) \o "(\"" \o name \o "\")", name)

RECURSIVE DeclarationLines(_, _)
DeclarationLines(nets, names) ==
    IF names = <<>> THEN <<>>
    ELSE <<Declaration(sanitize_name(Head(names)), nets[Head(names)], Head(names))>>
         \o DeclarationLines(nets, Tail(names))

\* nets: the map of collect_nets; keys: its names in the order its iteration gives them
emit_net_declarations(nets, keys) ==
    IF keys = <<>> THEN <<>>
    ELSE <<Line("# Nets", "heading")>> \o DeclarationLines(nets, sort(keys)) \o <<BlankLine>>

emit_board(name) ==
    << Line("# Board configuration", "board"),
       Line("Board(", "board"),
       Line("    name = \"" \o name \o "-imported\",", "board"),
       Line("    layers = 4,", "board"),
       Line("    layout_path = \"layout/" \o name \o "-imported\"", "board"),
       Line(")", "board") >>

-----------------------------------------------------------------------------
(* emit/emitter.rs: what the project declares and uses                     *)

Unconnected_EmptyOnly(net_name) == net_name = ""

\* the test of collect_nets and of every pad loop: the net is not one to surface
Unconnected(net_name) == net_name = "" \/ starts_with(net_name, "unconnected-")

\* HashMap::insert
insert(map, k, v) == [x \in DOMAIN map \cup {k} |-> IF x = k THEN v ELSE map[x]]

\* the body of the loop of collect_nets
InsertNet(nets, name) ==
    IF ~Unconnected(name) THEN insert(nets, name, infer_net_type(name)) ELSE nets

\* the loop of collect_nets over the net table; ids: the net ids in the order the
\* iteration of the table gives them
RECURSIVE CollectNets(_, _, _)
CollectNets(nets, table, ids) ==
    IF ids = <<>> THEN nets
    ELSE CollectNets(InsertNet(nets, table[Head(ids)]), table, Tail(ids))

collect_nets(project, ids) ==
    IF project.pcb # None THEN CollectNets(<<>>, project.pcb[1].nets, ids) ELSE <<>>

\* the paths that the loop over the symbols inserts
SymbolModules(symbols) ==
    {map_symbol(symbols[i].lib_id)[1].module_path :
        i \in {j \in DOMAIN symbols : map_symbol(symbols[j].lib_id) # None}}

FootprintType(fp) == infer_component_type_combined(fp.footprint, fp.reference)

\* the paths that the loop over the footprints inserts
FootprintModules(footprints) ==
    {module_path(FootprintType(footprints[i]))[1] :
        i \in {j \in DOMAIN footprints : module_path(FootprintType(footprints[j])) # None}}

collect_used_modules_Both(project) ==
    (IF project.schematic # None THEN SymbolModules(project.schematic[1].symbols) ELSE {})
    \cup (IF project.pcb # None THEN FootprintModules(project.pcb[1].footprints) ELSE {})

collect_used_modules(project) ==
    IF project.schematic # None THEN SymbolModules(project.schematic[1].symbols)
    ELSE IF project.pcb # None THEN FootprintModules(project.pcb[1].footprints)
    ELSE {}

-----------------------------------------------------------------------------
(* emit/emitter.rs: the component blocks                                   *)

\* looks_like_mpn of emitter.rs
emitter_looks_like_mpn(value) ==
    \/ contains(value, "-") /\ ByteLen(value) > 4
    \/ ByteLen(value) > 8 /\ Count(is_alphabetic, value) > 3

\* str::trim_start_matches('/')
RECURSIVE trim_start_matches_slash(_)
trim_start_matches_slash(s) ==
    IF starts_with(s, "/") THEN trim_start_matches_slash(Tail(s)) ELSE s

FootprintAt_AnyPath(footprints, uuid, i) == IF i < 1 THEN None ELSE Some(footprints[i])

\* uuid_to_fp.get(uuid): of the footprints up to the i-th, the last whose path is the uuid
RECURSIVE FootprintAt(_, _, _)
FootprintAt(footprints, uuid, i) ==
    IF i < 1 THEN None
    ELSE IF trim_start_matches_slash(footprints[i].path) = uuid THEN Some(footprints[i])
    ELSE FootprintAt(footprints, uuid, i - 1)

uuid_to_fp(pcb, uuid) ==
    IF pcb # None THEN FootprintAt(pcb[1].footprints, uuid, Len(pcb[1].footprints)) ELSE None

\* a pin table that is never consulted
PinAt_Raw(pairs, number, i) == number

\* map.get(number).unwrap_or(number): of the pairs up to the i-th, the last for the number
RECURSIVE PinAt(_, _, _)
PinAt(pairs, number, i) ==
    IF i < 1 THEN number
    ELSE IF pairs[i][1] = number THEN pairs[i][2]
    ELSE PinAt(pairs, number, i - 1)

PinLine(pin, net, pad) == PadLine("    " \o pin \o " = " \o net \o ",", "pin", <<pad>>)

\* the pad loop of emit_pin_connections and of emit_pcb_generic_component
RECURSIVE PinLines(_, _)
PinLines(pads, pairs) ==
    IF pads = <<>> THEN <<>>
    ELSE (IF Unconnected(Head(pads).net_name) THEN <<>>
          ELSE <<PinLine(PinAt(pairs, Head(pads).number, Len(pairs)),
                         sanitize_name(Head(pads).net_name), Head(pads))>>)
         \o PinLines(Tail(pads), pairs)

emit_pin_connections(footprint, pairs) ==
    IF footprint = None THEN <<>> ELSE PinLines(footprint[1].pads, pairs)

ValueLine(value, comp_type) ==
    IF value # "" /\ comp_type # "Other" /\ ~emitter_looks_like_mpn(value)
    THEN <<Line("    value = \"" \o normalize_value(value, comp_type) \o "\",", "value")>>
    ELSE <<>>

PackageLine(pkg) ==
    IF pkg # None THEN <<Line("    package = \"" \o pkg[1] \o "\",", "package")>> ELSE <<>>

emit_value_and_package(value, footprint, lib_id) ==
    ValueLine(value, from_lib_id(lib_id)) \o PackageLine(extract_package(footprint))

RECURSIVE FlagLines(_)
FlagLines(flags) ==
    IF flags = <<>> THEN <<>>
    ELSE <<Line("    " \o Head(flags)[1] \o " = " \o Head(flags)[2] \o ",", "flag")>>
         \o FlagLines(Tail(flags))

emit_generic_component(name, module, body) ==
    <<Line(module \o "(", "open"), Line("    name = \"" \o name \o "\",", "name")>>
    \o body
    \o <<Line(")", "close"), BlankLine>>

\* the pads that the filter of the unknown components keeps
RECURSIVE ConnectedPads(_)
ConnectedPads(pads) ==
    IF pads = <<>> THEN <<>>
    ELSE (IF Unconnected(Head(pads).net_name) THEN <<>> ELSE <<Head(pads)>>)
         \o ConnectedPads(Tail(pads))

\* nets.join(", ")
RECURSIVE JoinPins(_)
JoinPins(pads) ==
    Head(pads).number \o "->" \o Head(pads).net_name
    \o (IF Tail(pads) = <<>> THEN "" ELSE ", " \o JoinPins(Tail(pads)))

PinsComment(pads) ==
    IF pads # <<>> THEN <<PadLine("# Pins: " \o JoinPins(pads), "pins", pads)>> ELSE <<>>

emit_unknown_component(symbol, footprint) ==
    << Line("# TODO: Unknown component type '" \o symbol.lib_id
            \o "' - manual conversion needed", "todo"),
       Line("# Reference: " \o symbol.reference \o ", Value: " \o symbol.value
            \o ", Footprint: " \o symbol.footprint, "todo") >>
    \o (IF footprint # None THEN PinsComment(ConnectedPads(footprint[1].pads)) ELSE <<>>)
    \o <<BlankLine>>

\* the body of the loop of emit_components_from_schematic, given what map_symbol and
\* uuid_to_fp say of the symbol
SymbolBlock(symbol, info, footprint) ==
    IF info # None
    THEN emit_generic_component(symbol.reference, info[1].module_name,
             emit_value_and_package(symbol.value, symbol.footprint, symbol.lib_id)
             \o FlagLines(info[1].flags)
             \o emit_pin_connections(footprint, info[1].pin_map))
    ELSE emit_unknown_component(symbol, footprint)

RECURSIVE SymbolBlocks(_, _)
SymbolBlocks(symbols, pcb) ==
    IF symbols = <<>> THEN <<>>
    ELSE SymbolBlock(Head(symbols), map_symbol(Head(symbols).lib_id),
                     uuid_to_fp(pcb, Head(symbols).uuid))
         \o SymbolBlocks(Tail(symbols), pcb)

emit_components_from_schematic(schematic, pcb) ==
    <<Line("# Components", "heading")>> \o SymbolBlocks(schematic.symbols, pcb)

PcbValueLine(value) ==
    IF value # "" /\ ~emitter_looks_like_mpn(value)
    THEN <<Line("    value = \"" \o value \o "\",", "value")>>
    ELSE <<>>

emit_pcb_generic_component(fp, module, comp_type) ==
    <<Line(module \o "(", "open"), Line("    name = \"" \o fp.reference \o "\",", "name")>>
    \o PackageLine(extract_package(fp.footprint))
    \o PcbValueLine(fp.value)
    \o (IF comp_type = "Led" THEN <<Line("    color = \"red\",", "color")>> ELSE <<>>)
    \o PinLines(fp.pads, pin_map(comp_type))
    \o <<Line(")", "close"), BlankLine>>

emit_pcb_unknown_component(fp) ==
    << Line("# TODO: Unknown footprint '" \o fp.footprint \o "' - manual conversion needed",
            "todo"),
       Line("# Reference: " \o fp.reference \o ", Value: " \o fp.value, "todo") >>
    \o PinsComment(ConnectedPads(fp.pads))
    \o <<BlankLine>>

\* the body of the loop of emit_components_from_pcb, given the type of the footprint
FootprintBlock(fp, comp_type) ==
    IF module_name(comp_type) # None
    THEN emit_pcb_generic_component(fp, module_name(comp_type)[1], comp_type)
    ELSE emit_pcb_unknown_component(fp)

RECURSIVE FootprintBlocks(_)
FootprintBlocks(footprints) ==
    IF footprints = <<>> THEN <<>>
    ELSE FootprintBlock(Head(footprints), FootprintType(Head(footprints)))
         \o FootprintBlocks(Tail(footprints))

emit_components_from_pcb(pcb) ==
    <<Line("# Components (from PCB footprints)", "heading")>>
    \o FootprintBlocks(pcb.footprints)

\* the components of emit_zen: the schematic first, the board otherwise
Components(project) ==
    IF project.schematic # None
    THEN emit_components_from_schematic(project.schematic[1], project.pcb)
    ELSE IF project.pcb # None THEN emit_components_from_pcb(project.pcb[1])
    ELSE <<>>

\* emit_zen, given the map of collect_nets
EmitWith(project, nets, keys, modules) ==
    emit_header(project.name)
    \o emit_imports(nets)
    \o emit_module_aliases(modules)
    \o emit_net_declarations(nets, keys)
    \o Components(project)
    \o emit_board(project.name)

\* emit_zen (its mode is not read). ids, keys and modules are the orders in which the
\* net table, the collected nets and the used modules are iterated.
emit_zen(project, ids, keys, modules) ==
    EmitWith(project, collect_nets(project, ids), keys, modules)

-----------------------------------------------------------------------------
(* emit_zen, run twice on one project                                      *)

MaxNets == 2
MaxPads == 2

NetNamePool == {"", "unconnected-(R1-Pad1)", "+3V3", "GND", "SDA", "D_P"}

\* the net tables: net id i has the name t[i]
NetTables == UNION {[1..n -> NetNamePool] : n \in 0..MaxNets}

PadPool ==
    {[number |-> "1", net_name |-> ""], [number |-> "1", net_name |-> "+3V3"],
     [number |-> "3", net_name |-> "unconnected-(R1-Pad1)"],
     [number |-> "3", net_name |-> "+3V3"]}

PadLists == UNION {[1..n -> PadPool] : n \in 0..MaxPads}

FootprintR(pads) ==
    [footprint |-> "Resistor_SMD:R_0402_1005Metric", reference |-> "R1", value |-> "4k7",
     path |-> "/u1", pads |-> pads]

FootprintU(pads) ==
    [footprint |-> "Custom:MyFootprint", reference |-> "U1", value |-> "STM32",
     path |-> "/u2", pads |-> pads]

FootprintLists ==
    {<<>>} \cup {<<FootprintR(pads)>> : pads \in PadLists}
           \cup {<<FootprintU(pads)>> : pads \in PadLists}

SymbolR ==
    [lib_id |-> "Device:R", reference |-> "R1", value |-> "4k7",
     footprint |-> "Resistor_SMD:R_0402_1005Metric", uuid |-> "u1",
     dnp |-> FALSE, exclude_from_bom |-> FALSE]

SymbolC ==
    [lib_id |-> "Device:C_Polarized", reference |-> "C1", value |-> "10u",
     footprint |-> "Capacitor_SMD:C_0603_1608Metric", uuid |-> "u3",
     dnp |-> FALSE, exclude_from_bom |-> FALSE]

SymbolU ==
    [lib_id |-> "MCU:STM32", reference |-> "U1", value |-> "STM32",
     footprint |-> "Custom:MyFootprint", uuid |-> "u2",
     dnp |-> FALSE, exclude_from_bom |-> FALSE]

Schematics ==
    {None, Some([symbols |-> <<>>]), Some([symbols |-> <<SymbolR>>]),
     Some([symbols |-> <<SymbolU>>]), Some([symbols |-> <<SymbolR, SymbolC, SymbolU>>])}

\* the boards with any net table and one footprint
BoardsOfNets == {[nets |-> t, footprints |-> <<FootprintR(<<>>)>>] : t \in NetTables}

\* the boards with any list of footprints and one net table
BoardsOfFootprints == {[nets |-> <<"", "+3V3">>, footprints |-> f] : f \in FootprintLists}

\* the projects: the boards of the first kind without a schematic and with the largest,
\* no board and the boards of the second kind with every schematic
Projects ==
    [name : {"demo"},
     schematic : {None, Some([symbols |-> <<SymbolR, SymbolC, SymbolU>>])},
     pcb : {Some(b) : b \in BoardsOfNets}]
    \cup [name : {"demo"},
          schematic : Schematics,
          pcb : {None} \cup {Some(b) : b \in BoardsOfFootprints}]

\* the orders in which an unordered collection of the elements S may be iterated
IterationOrders(S) ==
    {o \in [1..Cardinality(S) -> S] : \A i, j \in DOMAIN o : o[i] = o[j] => i = j}

NetIds(project) == IF project.pcb # None THEN DOMAIN project.pcb[1].nets ELSE {}

InitEmit ==
    /\ pc = "call"
    /\ op = "emit_zen"
    /\ arg \in Projects
    /\ ret = NoRet
    /\ ret2 = NoRet

Emit ==
    /\ pc = "call"
    /\ op = "emit_zen"
    /\ \E ids \in IterationOrders(NetIds(arg)) :
       \E keys \in IterationOrders(DOMAIN collect_nets(arg, ids)) :
       \E modules \in IterationOrders(collect_used_modules(arg)) :
           ret' = emit_zen(arg, ids, keys, modules)
    /\ pc' = "ret"
    /\ UNCHANGED <<op, arg, ret2>>

\* a second run on the same project
EmitAgain ==
    /\ pc = "ret"
    /\ op = "emit_zen"
    /\ \E ids \in IterationOrders(NetIds(arg)) :
       \E keys \in IterationOrders(DOMAIN collect_nets(arg, ids)) :
       \E modules \in IterationOrders(collect_used_modules(arg)) :
           ret2' = emit_zen(arg, ids, keys, modules)
    /\ pc' = "ret2"
    /\ UNCHANGED <<op, arg, ret>>

NextEmit == Emit \/ EmitAgain

SpecEmit == InitEmit /\ [][NextEmit]_vars

Emitted == pc \in {"ret", "ret2"} /\ op = "emit_zen"

\* the bytes of an output: the texts of its lines
Text(out) == [i \in DOMAIN out |-> out[i].text]

HasLine(out, text) == \E i \in DOMAIN out : out[i].text = text

\* C4: two runs of the emitter on one project give byte-identical output, whatever the
\* iteration orders of the net table, of the collected nets and of the used modules.
C4_Deterministic == (Emitted /\ pc = "ret2") => Text(ret2) = Text(ret)

\* two runs on a project with two modules and two nets, each written in the order of
\* their names
C4_Witness ==
    /\ Emitted /\ pc = "ret2"
    /\ arg.schematic = Some([symbols |-> <<SymbolR, SymbolC, SymbolU>>])
    /\ arg.pcb # None /\ arg.pcb[1].nets = <<"GND", "D_P">>
    /\ \E i \in DOMAIN ret2 :
           /\ ret2[i].text = "Capacitor = Module(\"@stdlib/generics/Capacitor.zen\")"
           /\ ret2[i + 1].text = "Resistor = Module(\"@stdlib/generics/Resistor.zen\")"
    /\ \E i \in DOMAIN ret2 : /\ ret2[i].text = "D_P = Net(\"D_P\")"
                              /\ ret2[i + 1].text = "GND = Ground(\"GND\")"
    /\ Text(ret2) = Text(ret)

Surfaced(net_name) == net_name # "" /\ ~starts_with(net_name, "unconnected-")

\* C5: no net whose name is empty or starts with "unconnected-" is in the net
\* declarations, and no pad with such a net name gives a pin assignment, in the block of
\* a mapped symbol, in the comment of an unmapped one, or in the blocks made from the board.
C5_NoUnconnected ==
    Emitted =>
        \A i \in DOMAIN ret :
            /\ ret[i].kind = "net" => Surfaced(ret[i].net)
            /\ ret[i].kind \in {"pin", "pins"} =>
                   \A j \in DOMAIN ret[i].pads : Surfaced(ret[i].pads[j].net_name)

\* a mapped symbol with a connected and an unconnected pad, on a board whose table has
\* the empty name: one pin assignment, one declaration
C5_Witness ==
    /\ Emitted
    /\ arg.schematic = Some([symbols |-> <<SymbolR>>])
    /\ arg.pcb # None
    /\ arg.pcb[1].nets = <<"", "+3V3">>
    /\ arg.pcb[1].footprints =
           <<FootprintR(<<[number |-> "1", net_name |-> "+3V3"],
                          [number |-> "3", net_name |-> "unconnected-(R1-Pad1)"]>>)>>
    /\ HasLine(ret, "    P1 = _3V3,")
    /\ Cardinality({i \in DOMAIN ret : ret[i].kind = "pin"}) = 1
    /\ Cardinality({i \in DOMAIN ret : ret[i].kind = "net"}) = 1

\* the nets a project declares: the names of its net table that are to be surfaced
DeclaredNets(project) ==
    IF project.pcb # None
    THEN {n \in {project.pcb[1].nets[i] : i \in DOMAIN project.pcb[1].nets} : Surfaced(n)}
    ELSE {}

\* the constructor of a role: Power, Ground, and Net for the signal and the two
\* differential roles
RoleConstructor(role) ==
    CASE role = "Power" -> "Power"
      [] role = "Ground" -> "Ground"
      [] role \in {"Signal", "DiffPairP", "DiffPairN"} -> "Net"

DeclarationOf(n) ==
    sanitize_name(n) \o " = " \o RoleConstructor(infer_net_type(n)) \o "(\"" \o n \o "\")"

\* C6: each declared net n is emitted as exactly one line <sanitize(n)> = <Ctor>("<n>"),
\* Ctor being Power for a power net, Ground for a ground net and Net for every other role;
\* "+3V3" is declared as _3V3 = Power("+3V3").
C6_OneDeclaration ==
    Emitted =>
        /\ \A text \in {DeclarationOf(n) : n \in DeclaredNets(arg)} :
               Cardinality({i \in DOMAIN ret : ret[i].text = text}) = 1
        /\ "+3V3" \in DeclaredNets(arg) => HasLine(ret, "_3V3 = Power(\"+3V3\")")

C6_Witness ==
    /\ Emitted
    /\ arg.pcb # None /\ arg.pcb[1].nets = <<"+3V3", "D_P">>
    /\ HasLine(ret, "_3V3 = Power(\"+3V3\")")
    /\ HasLine(ret, "D_P = Net(\"D_P\")")
    /\ infer_net_type("D_P") = "DiffPairP"
    /\ infer_net_type("SDA") = "Signal"

-----------------------------------------------------------------------------
(* emit/idiomatic.rs: emit_idiomatic. Its collect_nets, emit_module_aliases *)
(* and emit_net_declarations have the bodies of those of emit/emitter.rs,   *)
(* and its sanitize_net_name is sanitize_net_name above.                    *)

idiomatic_header(name) ==
    << Line("# Auto-generated from KiCad project: " \o name, "header"),
       Line("# Mode: idiomatic (uses stdlib generics)", "header"),
       BlankLine,
       Line("# " \o U0060 \o U0060 \o U0060 \o "pcb", "header"),
       Line("# [workspace]", "header"),
       Line("# pcb-version = \"0.3\"", "header"),
       Line("# " \o U0060 \o U0060 \o U0060, "header"),
       BlankLine >>

\* collect_used_modules of idiomatic.rs: the symbols of the schematic only
idiomatic_collect_used_modules(project) ==
    IF project.schematic # None THEN SymbolModules(project.schematic[1].symbols) ELSE {}

IdiomaticImportLines(has_power, has_ground) ==
    (IF has_power \/ has_ground
     THEN <<Line("load(\"@stdlib/interfaces.zen\", " \o Imports(has_power, has_ground) \o ")",
                 "import")>>
     ELSE <<>>)
    \o <<BlankLine>>

\* emit_imports of idiomatic.rs
idiomatic_emit_imports(nets) ==
    IdiomaticImportLines(\E n \in DOMAIN nets : nets[n] = "Power",
                         \E n \in DOMAIN nets : nets[n] = "Ground")

\* looks_like_mpn of idiomatic.rs
idiomatic_looks_like_mpn(value) ==
    IF contains(value, "-") /\ ByteLen(value) > 4 THEN TRUE
    ELSE IF ByteLen(value) > 8 /\ Count(is_alphabetic, value) > 3 THEN TRUE
    ELSE FALSE

\* the value of emit_component_idiomatic, given the normalized value
IdiomaticValueFrom(value, normalized) ==
    IF normalized # value \/ ~idiomatic_looks_like_mpn(value)
    THEN <<Line("    value=\"" \o normalized \o "\",", "value")>>
    ELSE <<>>

IdiomaticValueLine(value, comp_type) ==
    IF value # "" /\ comp_type # "Other"
    THEN IdiomaticValueFrom(value, normalize_value(value, comp_type))
    ELSE <<>>

IdiomaticPackageLine(pkg) ==
    IF pkg # None THEN <<Line("    package=\"" \o pkg[1] \o "\",", "package")>> ELSE <<>>

RECURSIVE IdiomaticFlagLines(_)
IdiomaticFlagLines(flags) ==
    IF flags = <<>> THEN <<>>
    ELSE <<Line("    " \o Head(flags)[1] \o "=" \o Head(flags)[2] \o ",", "flag")>>
         \o IdiomaticFlagLines(Tail(flags))

\* the do-not-populate and the bill-of-materials arguments
DnpLines(symbol) ==
    (IF symbol.dnp THEN <<Line("    dnp=True,", "dnp")>> ELSE <<>>)
    \o (IF symbol.exclude_from_bom THEN <<Line("    skip_bom=True,", "skip_bom")>> ELSE <<>>)

\* the pad loop of emit_component_idiomatic
RECURSIVE IdiomaticPinLines(_, _)
IdiomaticPinLines(pads, pairs) ==
    IF pads = <<>> THEN <<>>
    ELSE (IF Unconnected(Head(pads).net_name) THEN <<>>
          ELSE <<PadLine("    " \o PinAt(pairs, Head(pads).number, Len(pairs)) \o "="
                         \o sanitize_net_name(Head(pads).net_name) \o ",",
                         "pin", <<Head(pads)>>)>>)
         \o IdiomaticPinLines(Tail(pads), pairs)

emit_component_idiomatic(symbol, info, footprint) ==
    << Line(info.module_name \o "(", "open"),
       Line("    name=\"" \o symbol.reference \o "\",", "name") >>
    \o IdiomaticValueLine(symbol.value, from_lib_id(symbol.lib_id))
    \o IdiomaticPackageLine(extract_package(symbol.footprint))
    \o IdiomaticFlagLines(info.flags)
    \o DnpLines(symbol)
    \o (IF footprint # None THEN IdiomaticPinLines(footprint[1].pads, info.pin_map) ELSE <<>>)
    \o <<Line(")", "close"), BlankLine>>

\* lib_id.find(':') and the two slices around it
split_lib_id(lib_id) ==
    IF FirstIndexOf(lib_id, ":", 1) <= Len(lib_id)
    THEN <<Sub(lib_id, 1, FirstIndexOf(lib_id, ":", 1) - 1),
           From(lib_id, FirstIndexOf(lib_id, ":", 1) + 1)>>
    ELSE <<"", lib_id>>

\* the entries of the pins dictionary, one for each pad the filter keeps
RECURSIVE PinEntries(_)
PinEntries(pin_nets) ==
    IF pin_nets = <<>> THEN <<>>
    ELSE <<PadLine("        \"" \o Head(pin_nets).number \o "\": "
                   \o sanitize_net_name(Head(pin_nets).net_name) \o ",",
                   "pin", <<Head(pin_nets)>>)>>
         \o PinEntries(Tail(pin_nets))

\* open and close: the lines that open and close the dictionary
PinsDict(pin_nets, open, close) ==
    IF pin_nets # <<>>
    THEN <<Line(open, "pins_open")>> \o PinEntries(pin_nets) \o <<Line(close, "pins_close")>>
    ELSE <<>>

emit_component_fallback(symbol, footprint) ==
    << Line("# Unmapped symbol: " \o symbol.lib_id, "comment"),
       Line("Component(", "component"),
       Line("    name=\"" \o symbol.reference \o "\",", "name"),
       Line("    symbol=Symbol(library=\"" \o split_lib_id(symbol.lib_id)[1]
            \o "\", name=\"" \o split_lib_id(symbol.lib_id)[2] \o "\"),", "symbol") >>
    \o (IF symbol.footprint # ""
        THEN <<Line("    footprint=\"" \o symbol.footprint \o "\",", "footprint")>> ELSE <<>>)
    \o (IF symbol.value # ""
        THEN <<Line("    value=\"" \o symbol.value \o "\",", "value")>> ELSE <<>>)
    \o DnpLines(symbol)
    \o (IF footprint # None
        THEN PinsDict(ConnectedPads(footprint[1].pads), "    pins={", "    },") ELSE <<>>)
    \o <<Line(")", "close"), BlankLine>>

\* the body of the loop of emit_components_idiomatic
IdiomaticBlock(symbol, info, footprint) ==
    IF info # None THEN emit_component_idiomatic(symbol, info[1], footprint)
    ELSE emit_component_fallback(symbol, footprint)

RECURSIVE IdiomaticBlocks(_, _)
IdiomaticBlocks(symbols, pcb) ==
    IF symbols = <<>> THEN <<>>
    ELSE IdiomaticBlock(Head(symbols), map_symbol(Head(symbols).lib_id),
                        uuid_to_fp(pcb, Head(symbols).uuid))
         \o IdiomaticBlocks(Tail(symbols), pcb)

emit_components_idiomatic(project) ==
    IF project.schematic = None THEN <<>>
    ELSE <<Line("# Components", "heading")>>
         \o IdiomaticBlocks(project.schematic[1].symbols, project.pcb)

\* emit_idiomatic, given the map of collect_nets
IdiomaticWith(project, nets, keys, modules) ==
    idiomatic_header(project.name)
    \o idiomatic_emit_imports(nets)
    \o emit_module_aliases(modules)
    \o emit_net_declarations(nets, keys)
    \o emit_components_idiomatic(project)

emit_idiomatic(project, ids, keys, modules) ==
    IdiomaticWith(project, collect_nets(project, ids), keys, modules)

-----------------------------------------------------------------------------
(* emit/faithful.rs: emit_faithful. Its collect_nets and                     *)
(* emit_net_declarations have the bodies of those of emit/emitter.rs, its    *)
(* emit_imports is the one of emit/emitter.rs, its split_lib_id the one of   *)
(* emit/idiomatic.rs.                                                        *)

faithful_header(name) ==
    << Line("# Auto-generated from KiCad project: " \o name, "header"),
       Line("# Mode: faithful (preserves exact KiCad data)", "header"),
       BlankLine,
       Line("# " \o U0060 \o U0060 \o U0060 \o "pcb", "header"),
       Line("# [workspace]", "header"),
       Line("# pcb-version = \"0.3\"", "header"),
       Line("# " \o U0060 \o U0060 \o U0060, "header"),
       BlankLine >>

\* the properties of emit_component_faithful
Properties(symbol) ==
    (IF symbol.value # "" THEN <<"\"Value\": \"" \o symbol.value \o "\"">> ELSE <<>>)
    \o (IF symbol.dnp THEN <<"\"dnp\": True">> ELSE <<>>)
    \o (IF symbol.exclude_from_bom THEN <<"\"exclude_from_bom\": True">> ELSE <<>>)

PropertyLines(properties) ==
    IF properties # <<>>
    THEN <<Line("    properties = {", "properties")>>
         \o [i \in DOMAIN properties |-> Line("        " \o properties[i] \o ",", "property")]
         \o <<Line("    },", "properties")>>
    ELSE <<>>

emit_component_faithful(symbol, footprint) ==
    << Line("Component(", "component"),
       Line("    name = \"" \o symbol.reference \o "\",", "name"),
       Line("    symbol = Symbol(library = \"@kicad-symbols/" \o split_lib_id(symbol.lib_id)[1]
            \o ".kicad_sym\", name = \"" \o split_lib_id(symbol.lib_id)[2] \o "\"),",
            "symbol") >>
    \o (IF symbol.footprint # ""
        THEN <<Line("    footprint = \"" \o symbol.footprint \o "\",", "footprint")>>
        ELSE <<>>)
    \o (IF footprint # None
        THEN PinsDict(ConnectedPads(footprint[1].pads), "    pins = {", "    },") ELSE <<>>)
    \o PropertyLines(Properties(symbol))
    \o <<Line(")", "close"), BlankLine>>

RECURSIVE FaithfulBlocks(_, _)
FaithfulBlocks(symbols, pcb) ==
    IF symbols = <<>> THEN <<>>
    ELSE emit_component_faithful(Head(symbols), uuid_to_fp(pcb, Head(symbols).uuid))
         \o FaithfulBlocks(Tail(symbols), pcb)

emit_components_faithful(project) ==
    IF project.schematic = None THEN <<>>
    ELSE <<Line("# Components", "heading")>>
         \o FaithfulBlocks(project.schematic[1].symbols, project.pcb)

\* emit_board of faithful.rs
faithful_emit_board(project) ==
    << Line("# Board configuration", "board"),
       Line("Board(", "board"),
       Line("    name = \"" \o project.name \o "\",", "board"),
       Line("    layers = 4,", "board"),
       Line("    layout_path = \"layout/" \o project.name \o "\"", "board"),
       Line(")", "board") >>

\* emit_faithful, given the map of collect_nets
FaithfulWith(project, nets, keys) ==
    faithful_header(project.name)
    \o emit_imports(nets)
    \o emit_net_declarations(nets, keys)
    \o emit_components_faithful(project)
    \o faithful_emit_board(project)

emit_faithful(project, ids, keys) ==
    FaithfulWith(project, collect_nets(project, ids), keys)

-----------------------------------------------------------------------------
(* emit/mod.rs: emit_zen, which chooses the emitter by the output mode      *)

OutputModes == {"Faithful", "Idiomatic"}

mod_emit_zen(project, mode, ids, keys, modules) ==
    CASE mode = "Faithful" -> emit_faithful(project, ids, keys)
      [] mode = "Idiomatic" -> emit_idiomatic(project, ids, keys, modules)

-----------------------------------------------------------------------------
(* the emitters, each run on one project                                    *)

MaxSymbols == 2

\* an unmapped symbol with no separator in its library id, no value and no footprint
SymbolBare ==
    [lib_id |-> "NoColon", reference |-> "X1", value |-> "", footprint |-> "",
     uuid |-> "u4", dnp |-> TRUE, exclude_from_bom |-> FALSE]

\* a mapped symbol whose kind is other
SymbolY ==
    [lib_id |-> "Device:Crystal", reference |-> "Y1", value |-> "8MHz",
     footprint |-> "Crystal:Crystal_SMD_3225-4Pin_3.2x2.5mm", uuid |-> "u5",
     dnp |-> FALSE, exclude_from_bom |-> TRUE]

\* a resistor, not populated, whose value is a part number with a blank before it
SymbolMpn ==
    [lib_id |-> "Device:R_Small", reference |-> "R2", value |-> " ERJ-2RKF1003X",
     footprint |-> "Resistor_SMD:R_0402_1005Metric", uuid |-> "u1",
     dnp |-> TRUE, exclude_from_bom |-> FALSE]

SymbolPool == {SymbolR, SymbolC, SymbolU, SymbolBare, SymbolY, SymbolMpn}

SymbolLists == UNION {[1..n -> SymbolPool] : n \in 0..MaxSymbols}

\* a board with a footprint for the symbols of uuid u1 and one for the symbol of uuid u2
BoardOfTwo ==
    [nets |-> <<"+3V3", "GND">>,
     footprints |->
         <<FootprintR(<<[number |-> "1", net_name |-> "+3V3"],
                        [number |-> "3", net_name |-> "unconnected-(R1-Pad1)"]>>),
           FootprintU(<<[number |-> "1", net_name |-> "+3V3"],
                        [number |-> "3", net_name |-> "+3V3"]>>)>>]

\* the paths of a footprint: the uuid of a symbol bare, after one and after two
\* separators, under a sheet, and another uuid
FootprintPaths == {"u1", "/u1", "//u1", "/s1/u1", "/u2"}

\* boards of one footprint, and of two with different pads, of those paths
PathBoards ==
    {[nets |-> <<"+3V3", "GND">>,
      footprints |-> <<[FootprintR(<<[number |-> "1", net_name |-> "+3V3"],
                                     [number |-> "3", net_name |-> "GND"]>>)
                           EXCEPT !.path = p]>>] : p \in FootprintPaths}
    \cup
    {[nets |-> <<"+3V3", "GND">>,
      footprints |-> <<[FootprintR(<<[number |-> "1", net_name |-> "+3V3"]>>)
                           EXCEPT !.path = p],
                       [FootprintR(<<[number |-> "2", net_name |-> "GND"],
                                     [number |-> "1", net_name |-> "if"]>>)
                           EXCEPT !.path = q]>>] : p, q \in FootprintPaths}

\* footprints whose name and reference say different things of their kind: a resistor
\* by name with the reference of a capacitor, a name of no kind with the reference of a
\* capacitor, of a transistor and of nothing known, and an LED
KindFootprints ==
    { [FootprintR(<<[number |-> "1", net_name |-> "+3V3"]>>) EXCEPT !.reference = "C9"],
      [FootprintU(<<[number |-> "2", net_name |-> "GND"],
                    [number |-> "7", net_name |-> "+3V3"]>>) EXCEPT !.reference = "C5"],
      [FootprintU(<<[number |-> "1", net_name |-> "GND"]>>) EXCEPT !.reference = "Q1"],
      FootprintU(<<[number |-> "1", net_name |-> "unconnected-(U1-Pad1)"]>>),
      [footprint |-> "LED_SMD:LED_0603_1608Metric", reference |-> "D1", value |-> "RED",
       path |-> "/u7",
       pads |-> <<[number |-> "1", net_name |-> "GND"], [number |-> "2", net_name |-> ""]>>] }

KindBoards ==
    {[nets |-> <<"+3V3", "GND">>, footprints |-> f] :
        f \in UNION {[1..n -> KindFootprints] : n \in 1..2}}

ModeNetTables ==
    {<<>>, <<"+3V3">>, <<"GND">>, <<"+3V3", "GND">>, <<"SDA", "">>, <<"+5V", "-5V">>}

\* the projects: every list of symbols without a board and with the board of two
\* footprints, and every board of a few net tables and footprint lists without a
\* schematic and with one
ModeProjects ==
    [name : {"demo"},
     schematic : {Some([symbols |-> l]) : l \in SymbolLists},
     pcb : {None, Some(BoardOfTwo)}]
    \cup [name : {"demo"},
          schematic : {None, Some([symbols |-> <<SymbolR, SymbolU>>])},
          pcb : {Some([nets |-> t, footprints |-> f]) :
                    t \in ModeNetTables, f \in FootprintLists}]
    \cup [name : {"demo"},
          schematic : {Some([symbols |-> <<SymbolR>>]), Some([symbols |-> <<SymbolU, SymbolMpn>>])},
          pcb : {Some(b) : b \in PathBoards}]
    \cup [name : {"demo"},
          schematic : {None},
          pcb : {Some(b) : b \in KindBoards}]

InitModes ==
    /\ pc = "call"
    /\ \/ op = "emit::emit_zen" /\ arg \in [project : ModeProjects, mode : OutputModes]
       \/ op = "emitter::emit_zen" /\ arg \in [project : ModeProjects, mode : {"Idiomatic"}]
    /\ ret = NoRet
    /\ ret2 = NoRet

\* emit_zen of emit/mod.rs
EmitByMode ==
    /\ pc = "call"
    /\ op = "emit::emit_zen"
    /\ \E ids \in IterationOrders(NetIds(arg.project)) :
       \E keys \in IterationOrders(DOMAIN collect_nets(arg.project, ids)) :
       \E modules \in IterationOrders(idiomatic_collect_used_modules(arg.project)) :
           ret' = mod_emit_zen(arg.project, arg.mode, ids, keys, modules)
    /\ pc' = "ret"
    /\ UNCHANGED <<op, arg, ret2>>

\* emit_zen of emit/emitter.rs
EmitUnified ==
    /\ pc = "call"
    /\ op = "emitter::emit_zen"
    /\ \E ids \in IterationOrders(NetIds(arg.project)) :
       \E keys \in IterationOrders(DOMAIN collect_nets(arg.project, ids)) :
       \E modules \in IterationOrders(collect_used_modules(arg.project)) :
           ret' = emit_zen(arg.project, ids, keys, modules)
    /\ pc' = "ret"
    /\ UNCHANGED <<op, arg, ret2>>

NextModes == EmitByMode \/ EmitUnified

SpecModes == InitModes /\ [][NextModes]_vars

Rendered == pc = "ret" /\ op \in {"emit::emit_zen", "emitter::emit_zen"}

\* the section of a line: 1 header, 2 imports, 3 module aliases, 4 net declarations,
\* 5 components, 6 board; 0 for a blank line
Section(line) ==
    CASE line.kind = "blank" -> 0
      [] line.kind = "header" -> 1
      [] line.kind = "import" -> 2
      [] line.kind = "alias" -> 3
      [] line.kind = "net" \/ line.text = "# Nets" -> 4
      [] line.kind = "board" -> 6
      [] OTHER -> 5

\* the line of a component block that carries the reference of its symbol
IsReferenceLine(line) ==
    \/ line.kind = "name"
    \/ line.kind = "todo" /\ starts_with(line.text, "# Reference: ")

\* the output ends with the Board block of a project of this name
EndsWithBoard(out, name) ==
    /\ Len(out) >= 6
    /\ out[Len(out) - 5].text = "# Board configuration"
    /\ out[Len(out) - 4].text = "Board("
    /\ starts_with(out[Len(out) - 3].text, "    name = \"" \o name)
    /\ out[Len(out) - 2].text = "    layers = 4,"
    /\ starts_with(out[Len(out) - 1].text, "    layout_path = \"layout/" \o name)
    /\ out[Len(out)].text = ")"

\* the blocks of the output are those of the symbols, in their order
BlocksFollow(out, symbols) ==
    /\ Len(SelectSeq(out, IsReferenceLine)) = Len(symbols)
    /\ \A i \in DOMAIN symbols :
           contains(SelectSeq(out, IsReferenceLine)[i].text, symbols[i].reference)

\* C11: for every project and output mode the output is, in this order, the header, the
\* imports, the module aliases, the net declarations, one component block for each placed
\* symbol in the order of the schematic, and a Board block with layers = 4 and a layout
\* path made from the project name; the Board block is always there and is the last section.
C11_SectionOrder ==
    Rendered =>
        /\ \A i, j \in DOMAIN ret :
               (i < j /\ Section(ret[i]) # 0 /\ Section(ret[j]) # 0)
                   => Section(ret[i]) <= Section(ret[j])
        /\ ret[1].kind = "header"
        /\ \E i \in DOMAIN ret : ret[i].kind = "import"
        /\ arg.project.schematic # None
               => BlocksFollow(ret, arg.project.schematic[1].symbols)
        /\ EndsWithBoard(ret, arg.project.name)

-----------------------------------------------------------------------------
(* the emitters, run on a project and then on the same project with no      *)
(* footprint that any symbol is joined to                                   *)

\* the board with the path of every footprint removed
Unpathed(pcb) ==
    [pcb EXCEPT !.footprints = [i \in DOMAIN pcb.footprints |->
                                   [pcb.footprints[i] EXCEPT !.path = ""]]]

\* the project with no board, and with a board none of whose footprints has a path
Unjoined(project) ==
    {[project EXCEPT !.pcb = None]}
    \cup (IF project.pcb # None
          THEN {[project EXCEPT !.pcb = Some(Unpathed(project.pcb[1]))]} ELSE {})

JoinProjects ==
    [name : {"demo"},
     schematic : {Some([symbols |-> l]) : l \in SymbolLists},
     pcb : {Some(BoardOfTwo)}]

InitJoin ==
    /\ pc = "call"
    /\ \/ op = "emit::emit_zen" /\ arg \in [project : JoinProjects, mode : OutputModes]
       \/ op = "emitter::emit_zen" /\ arg \in [project : JoinProjects, mode : {"Idiomatic"}]
    /\ ret = NoRet
    /\ ret2 = NoRet

\* the emitter of the first run, on an unjoined project
EmitUnjoined ==
    /\ pc = "ret"
    /\ \E project \in Unjoined(arg.project) :
       \E ids \in IterationOrders(NetIds(project)) :
       \E keys \in IterationOrders(DOMAIN collect_nets(project, ids)) :
           \/ /\ op = "emit::emit_zen"
              /\ \E modules \in IterationOrders(idiomatic_collect_used_modules(project)) :
                     ret2' = mod_emit_zen(project, arg.mode, ids, keys, modules)
           \/ /\ op = "emitter::emit_zen"
              /\ \E modules \in IterationOrders(collect_used_modules(project)) :
                     ret2' = emit_zen(project, ids, keys, modules)
    /\ pc' = "ret2"
    /\ UNCHANGED <<op, arg, ret>>

NextJoin == EmitByMode \/ EmitUnified \/ EmitUnjoined

SpecJoin == InitJoin /\ [][NextJoin]_vars

\* a line written for the pads of the joined footprint
IsJoinLine(line) == line.kind \in {"pin", "pins", "pins_open", "pins_close"}

\* a line of a component block other than those
IsBlockLine(line) == Section(line) = 5 /\ ~IsJoinLine(line)

\* C12: a placed symbol that no footprint of the board is joined to (or with no board at
\* all) has its component block written with name, value, package and flags exactly as
\* with a joined footprint, and with no pin assignment.
C12_UnjoinedBlock ==
    pc = "ret2" =>
        /\ Text(SelectSeq(ret2, IsBlockLine)) = Text(SelectSeq(ret, IsBlockLine))
        /\ \A i \in DOMAIN ret2 : ~IsJoinLine(ret2[i])

\* a resistor joined to a footprint with a connected pad, and a polarized capacitor that
\* nothing is joined to: the first run assigns a pin of the resistor and none of the
\* capacitor, the second none at all, with the value, package and flag lines as before
C12_Witness ==
    /\ pc = "ret2"
    /\ op = "emitter::emit_zen"
    /\ arg.project.schematic = Some([symbols |-> <<SymbolR, SymbolC>>])
    /\ Cardinality({i \in DOMAIN ret : ret[i].kind = "pin"}) = 1
    /\ HasLine(ret, "    P1 = _3V3,")
    /\ \A i \in DOMAIN ret2 : ret2[i].kind # "pin"
    /\ HasLine(ret2, "    value = \"4.7kohm\",")
    /\ HasLine(ret2, "    package = \"0402\",")
    /\ HasLine(ret2, "    polarized = true,")
    /\ HasLine(ret2, "    name = \"C1\",")

\* the index of the line that closes the block whose call is the line i of the output
RECURSIVE BlockEnd(_, _)
BlockEnd(out, i) ==
    IF i >= Len(out) \/ out[i].kind = "close" THEN i ELSE BlockEnd(out, i + 1)

\* the library and the part name of a library id: the id split at its first ':', the
\* library empty when there is none
LibraryAndPart(lib_id) ==
    IF \A m \in 1..Len(lib_id) : At(lib_id, m) # ":" THEN {<<"", lib_id>>}
    ELSE {<<Sub(lib_id, 1, m - 1), From(lib_id, m + 1)>> :
              m \in {n \in 1..Len(lib_id) :
                        At(lib_id, n) = ":" /\ \A k \in 1..(n - 1) : At(lib_id, k) # ":"}}

IsPinLine(line) == line.kind = "pin"

IsSurfacedPad(pad) == Surfaced(pad.net_name)

\* the pads of the footprint, if there is one, whose nets are to be surfaced
SurfacedPads(footprint) ==
    IF footprint = None THEN <<>> ELSE SelectSeq(footprint[1].pads, IsSurfacedPad)

\* the text ends with the word
EndsWith(text, word) == \E m \in 1..Len(text) : From(text, m) = word

\* the lines i..j of the output are a generic Component call for the symbol: its
\* reference, its library id split at the first ':', its footprint and its value when it
\* has them, and a pins entry "<number>": <variable> for each pad in pads, in their order
IsComponentCall(out, i, j, symbol, pads) ==
    /\ out[i].text = "Component("
    /\ out[j].kind = "close"
    /\ \E k \in i..j : /\ out[k].kind = "name"
                       /\ contains(out[k].text, "\"" \o symbol.reference \o "\"")
    /\ \E k \in i..j : \E split \in LibraryAndPart(symbol.lib_id) :
           /\ contains(out[k].text, "Symbol(library=\"" \o split[1] \o "\"")
           /\ contains(out[k].text, "name=\"" \o split[2] \o "\"")
    /\ symbol.footprint # "" =>
           \E k \in i..j : /\ out[k].kind = "footprint"
                           /\ contains(out[k].text, "\"" \o symbol.footprint \o "\"")
    /\ symbol.value # "" =>
           \E k \in i..j : /\ out[k].kind = "value"
                           /\ contains(out[k].text, "\"" \o symbol.value \o "\"")
    /\ Len(SelectSeq(SubSeq(out, i, j), IsPinLine)) = Len(pads)
    /\ \A n \in DOMAIN pads :
           /\ contains(SelectSeq(SubSeq(out, i, j), IsPinLine)[n].text,
                       "\"" \o pads[n].number \o "\": ")
           /\ EndsWith(SelectSeq(SubSeq(out, i, j), IsPinLine)[n].text,
                       " " \o sanitize_net_name(pads[n].net_name) \o ",")

\* the placed symbols of the project, if it has a schematic
PlacedSymbols(project) ==
    IF project.schematic # None THEN project.schematic[1].symbols ELSE <<>>

\* C13: for each placed symbol whose library id is unmapped the emitter writes a generic
\* Component call with the library id split at its first ':' into library and part name
\* (the library "" when there is no ':'), the raw footprint, the raw value, and a dictionary
\* from pad number to sanitized net variable for the pads whose net is neither empty nor
\* unconnected.
C13_UnmappedComponent ==
    (Rendered /\ ~(op = "emit::emit_zen" /\ arg.mode = "Faithful")) =>
        \A n \in DOMAIN PlacedSymbols(arg.project) :
            map_symbol(PlacedSymbols(arg.project)[n].lib_id) = None =>
                \E i \in DOMAIN ret :
                    /\ Cardinality({k \in 1..i : IsReferenceLine(ret[k])}) = n - 1
                    /\ IsComponentCall(ret, i, BlockEnd(ret, i), PlacedSymbols(arg.project)[n],
                           SurfacedPads(uuid_to_fp(arg.project.pcb,
                                                   PlacedSymbols(arg.project)[n].uuid)))

\* the import line of the interfaces, if the output has one
InterfaceImports(out) ==
    {i \in DOMAIN out : starts_with(out[i].text, "load(\"@stdlib/interfaces.zen\", ")}

\* a net of this role is declared
Declares(project, role) == \E n \in DeclaredNets(project) : infer_net_type(n) = role

\* C18: the import line of the interfaces lists Power if and only if a declared net is a
\* power net and Ground if and only if one is a ground net, and is absent when neither is
\* the case; so each Power(...) or Ground(...) constructor of a net declaration is
\* imported, and the Board symbol of the final block is always imported.
C18_ImportsMatchNets ==
    Rendered =>
        /\ Cardinality(InterfaceImports(ret)) =
               (IF Declares(arg.project, "Power") \/ Declares(arg.project, "Ground")
                THEN 1 ELSE 0)
        /\ \A i \in InterfaceImports(ret) :
               /\ ret[i].kind = "import"
               /\ contains(ret[i].text, "\"Power\"") <=> Declares(arg.project, "Power")
               /\ contains(ret[i].text, "\"Ground\"") <=> Declares(arg.project, "Ground")
        /\ \A i \in DOMAIN ret :
               /\ (ret[i].kind = "net" /\ contains(ret[i].text, " = Power(\"")) =>
                      \E j \in 1..(i - 1) : /\ j \in InterfaceImports(ret)
                                            /\ contains(ret[j].text, "\"Power\"")
               /\ (ret[i].kind = "net" /\ contains(ret[i].text, " = Ground(\"")) =>
                      \E j \in 1..(i - 1) : /\ j \in InterfaceImports(ret)
                                            /\ contains(ret[j].text, "\"Ground\"")
        /\ HasLine(ret, "load(\"@stdlib/board_config.zen\", \"Board\")")

\* the name of the module that a line calls (an open line) or declares (an alias line)
CalledName(line) == Sub(line.text, 1, Len(line.text) - 1)

AliasName(line) == Sub(line.text, 1, FirstIndexOf(line.text, " ", 1) - 1)

AliasPath(line) ==
    SubSeq(line.text, FirstIndexOf(line.text, "(", 1) + 2, Len(line.text) - 2)

\* the lines of the module aliases, and the lines that call a module
Aliases(out) == {i \in DOMAIN out : out[i].kind = "alias"}

Calls(out) == {i \in DOMAIN out : out[i].kind = "open"}

\* C19: the module aliases are one line <Name> = Module("<path>") for each generic-part
\* template that some component block calls, in ascending order of the module path, and
\* none for a template that no block calls; so each module called in a component block
\* has its alias declared before it.
C19_AliasesMatchCalls ==
    Rendered =>
        /\ \A i \in Calls(ret) :
               \E j \in Aliases(ret) : j < i /\ AliasName(ret[j]) = CalledName(ret[i])
        /\ \A j \in Aliases(ret) :
               /\ \E i \in Calls(ret) : CalledName(ret[i]) = AliasName(ret[j])
               /\ ret[j].text = AliasName(ret[j]) \o " = Module(\"" \o AliasPath(ret[j]) \o "\")"
               /\ AliasPath(ret[j]) = "@stdlib/generics/" \o AliasName(ret[j]) \o ".zen"
        /\ \A j, k \in Aliases(ret) :
               j < k => /\ AliasPath(ret[j]) # AliasPath(ret[k])
                        /\ StrLess(AliasPath(ret[j]), AliasPath(ret[k]))

\* a resistor and then a capacitor: the alias of the capacitor comes first, each is
\* declared once, and each is called after its alias
C19_Witness ==
    /\ Rendered
    /\ op = "emit::emit_zen" /\ arg.mode = "Idiomatic"
    /\ arg.project.schematic = Some([symbols |-> <<SymbolR, SymbolC>>])
    /\ Cardinality(Aliases(ret)) = 2
    /\ \E j \in Aliases(ret) :
           /\ ret[j].text = "Capacitor = Module(\"@stdlib/generics/Capacitor.zen\")"
           /\ ret[j + 1].text = "Resistor = Module(\"@stdlib/generics/Resistor.zen\")"
    /\ \E i, k \in Calls(ret) :
           i < k /\ ret[i].text = "Resistor(" /\ ret[k].text = "Capacitor("

\* the value lines of the block that the line i of the output opens
ValueLines(out, i) == {k \in i..BlockEnd(out, i) : out[k].kind = "value"}

\* the line that opens the block of the n-th placed symbol
OpensBlock(out, i, n) ==
    /\ out[i].kind \in {"open", "component"}
    /\ Cardinality({k \in 1..i : IsReferenceLine(out[k])}) = n - 1

\* the symbol is to have a value argument: it has a value, its kind is not other, and
\* the value is not a part number by the heuristic
HasValueArgument(symbol) ==
    /\ symbol.value # ""
    /\ from_lib_id(symbol.lib_id) # "Other"
    /\ ~looks_like_mpn(symbol.value)

\* C20: the block of a mapped symbol has a value argument if and only if the value of the
\* symbol is not empty, its kind by the library id is not other, and the value does not
\* satisfy the part-number heuristic; the argument then is normalize_value(value, kind).
C20_ValueArgument ==
    (Rendered /\ ~(op = "emit::emit_zen" /\ arg.mode = "Faithful")) =>
        \A n \in DOMAIN PlacedSymbols(arg.project) :
            map_symbol(PlacedSymbols(arg.project)[n].lib_id) # None =>
                \E i \in DOMAIN ret :
                    /\ OpensBlock(ret, i, n)
                    /\ Cardinality(ValueLines(ret, i)) =
                           (IF HasValueArgument(PlacedSymbols(arg.project)[n]) THEN 1 ELSE 0)
                    /\ \A k \in ValueLines(ret, i) :
                           contains(ret[k].text,
                               "\"" \o normalize_value(PlacedSymbols(arg.project)[n].value,
                                           from_lib_id(PlacedSymbols(arg.project)[n].lib_id))
                                    \o "\",")

\* ---------------------------------------------------------------------------
\* parser/schematic.rs and parser/pcb.rs: the walk from the generic tree that
\* pcb_sexpr::parse returns into KicadSchematic and KicadPcb.
\*
\* A tree node is a record [kind, s, n, items]: kind is "sym", "str", "int",
\* "float" or "list", s the text of a symbol or a string, n the number of an
\* integer or a float (counted in tenths), items the elements of a list.  A
\* Result is a record [ok, v, err] with the value in Some(..) when ok.  The outcome of pcb_sexpr::parse is an input of the model: Ok(tree)
\* or Err of the tokenizer.  Integers of the enumerated trees are not
\* negative and below 2^31, where `as u32` leaves them unchanged.
\* ---------------------------------------------------------------------------

Ok(v) == [ok |-> TRUE, v |-> Some(v), err |-> ""]

Err(e) == [ok |-> FALSE, v |-> None, err |-> e]

Value(result) == result.v[1]

SymbolAtom(s) == [kind |-> "sym", s |-> s, n |-> 0, items |-> <<>>]

StringAtom(s) == [kind |-> "str", s |-> s, n |-> 0, items |-> <<>>]

IntAtom(n) == [kind |-> "int", s |-> "", n |-> n, items |-> <<>>]

FloatAtom(tenths) == [kind |-> "float", s |-> "", n |-> tenths, items |-> <<>>]

ListOf(items) == [kind |-> "list", s |-> "", n |-> 0, items |-> items]

as_list(s) == IF s.kind = "list" THEN Some(s.items) ELSE None

as_sym(s) == IF s.kind = "sym" THEN Some(s.s) ELSE None

as_str(s) == IF s.kind = "str" THEN Some(s.s) ELSE None

as_int(s) == IF s.kind = "int" THEN Some(s.n) ELSE None

as_float(s) ==
    IF s.kind = "float" THEN Some(s.n)
    ELSE IF s.kind = "int" THEN Some(s.n * 10)
    ELSE None

\* Option::unwrap_or.
unwrap_or(o, default) == IF o = None THEN default ELSE o[1]

\* slice.get(i), with the index of the source (from 0).
Get(items, i) == IF i + 1 <= Len(items) THEN Some(items[i + 1]) ELSE None

\* items.first().and_then(|s| s.as_sym())
Tag(items) == IF Len(items) >= 1 THEN as_sym(items[1]) ELSE None

\* items.get(i).and_then(|s| s.as_sym()), as_str, as_int, as_float
SymAt(items, i) == IF i + 1 <= Len(items) THEN as_sym(items[i + 1]) ELSE None

StrAt(items, i) == IF i + 1 <= Len(items) THEN as_str(items[i + 1]) ELSE None

IntAt(items, i) == IF i + 1 <= Len(items) THEN as_int(items[i + 1]) ELSE None

FloatAt(items, i) == IF i + 1 <= Len(items) THEN as_float(items[i + 1]) ELSE None

get_string_value(sexpr) ==
    IF sexpr.kind \in {"str", "sym"} THEN sexpr.s ELSE ""

\* items.get(i).map(get_string_value)
StringAt(items, i) ==
    IF i + 1 <= Len(items) THEN Some(get_string_value(items[i + 1])) ELSE None

\* HashMap::new and HashMap::insert: a map is a function on its keys.
EmptyMap == <<>>

MapInsert(map, key, value) ==
    [k \in DOMAIN map \cup {key} |-> IF k = key THEN value ELSE map[k]]

\* (at x y rotation), each coordinate 0.0 when missing or not a number
At3(items) ==
    << unwrap_or(FloatAt(items, 1), 0),
       unwrap_or(FloatAt(items, 2), 0),
       unwrap_or(FloatAt(items, 3), 0) >>

\* ---- parser/schematic.rs --------------------------------------------------

PinField(pin, sub_items, tag) ==
    IF tag = Some("name") /\ Len(sub_items) >= 2
    THEN [pin EXCEPT !.name = get_string_value(sub_items[2])]
    ELSE IF tag = Some("number") /\ Len(sub_items) >= 2
    THEN [pin EXCEPT !.number = get_string_value(sub_items[2])]
    ELSE pin

RECURSIVE PinFrom(_, _, _)
PinFrom(items, i, pin) ==
    IF i > Len(items) THEN pin
    ELSE IF items[i].kind = "list"
    THEN PinFrom(items, i + 1, PinField(pin, items[i].items, Tag(items[i].items)))
    ELSE PinFrom(items, i + 1, pin)

LibPinOf(items) ==
    PinFrom(items, 3, [number |-> "", name |-> "",
                       pin_type |-> unwrap_or(SymAt(items, 1), "passive")])

PushPin(pins, pin) == IF pin.number # "" THEN Append(pins, pin) ELSE pins

RECURSIVE parse_pins_from_symbol(_, _, _)
parse_pins_from_symbol(list, i, pins) ==
    IF i > Len(list) THEN pins
    ELSE IF list[i].kind = "list" /\ Tag(list[i].items) = Some("pin")
    THEN parse_pins_from_symbol(list, i + 1, PushPin(pins, LibPinOf(list[i].items)))
    ELSE parse_pins_from_symbol(list, i + 1, pins)

LibSymbolField(lib_symbol, sub_items, tag) ==
    IF tag = Some("property")
    THEN IF StrAt(sub_items, 1) # None /\ Len(sub_items) >= 3
         THEN [lib_symbol EXCEPT !.properties =
                  MapInsert(@, sub_items[2].s, get_string_value(sub_items[3]))]
         ELSE lib_symbol
    ELSE IF tag = Some("symbol")
    THEN [lib_symbol EXCEPT !.pins = parse_pins_from_symbol(sub_items, 1, @)]
    ELSE lib_symbol

RECURSIVE LibSymbolFrom(_, _, _)
LibSymbolFrom(items, i, lib_symbol) ==
    IF i > Len(items) THEN lib_symbol
    ELSE IF items[i].kind = "list"
    THEN LibSymbolFrom(items, i + 1,
             LibSymbolField(lib_symbol, items[i].items, Tag(items[i].items)))
    ELSE LibSymbolFrom(items, i + 1, lib_symbol)

\* items.get(1).and_then(|s| s.as_str().or_else(|| s.as_sym()))
LibSymbolName(items) ==
    IF Len(items) >= 2 /\ items[2].kind \in {"str", "sym"}
    THEN Some(items[2].s) ELSE None

RECURSIVE LibSymbolsFrom(_, _, _)
LibSymbolsFrom(list, i, symbols) ==
    IF i > Len(list) THEN symbols
    ELSE IF list[i].kind = "list" /\ Tag(list[i].items) = Some("symbol")
            /\ LibSymbolName(list[i].items) # None
    THEN LibSymbolsFrom(list, i + 1,
             MapInsert(symbols, LibSymbolName(list[i].items)[1],
                    LibSymbolFrom(list[i].items, 3,
                        [name |-> LibSymbolName(list[i].items)[1],
                         properties |-> EmptyMap, pins |-> <<>>])))
    ELSE LibSymbolsFrom(list, i + 1, symbols)

\* A parse_lib_symbols that rejects a library symbol without a name.
parse_lib_symbols_Strict(list) ==
    IF \E i \in 2..Len(list) :
          /\ list[i].kind = "list"
          /\ Tag(list[i].items) = Some("symbol")
          /\ LibSymbolName(list[i].items) = None
    THEN Err("Missing symbol name")
    ELSE Ok(LibSymbolsFrom(list, 2, EmptyMap))

parse_lib_symbols(list) == Ok(LibSymbolsFrom(list, 2, EmptyMap))

NewSchematicSymbol ==
    [uuid |-> "", lib_id |-> "", at |-> <<0, 0, 0>>, reference |-> "",
     value |-> "", footprint |-> "", dnp |-> FALSE,
     exclude_from_bom |-> FALSE, exclude_from_board |-> FALSE,
     pins |-> EmptyMap, properties |-> EmptyMap]

SymbolProperty(symbol, key, value) ==
    IF key = "Reference"
    THEN [symbol EXCEPT !.properties = MapInsert(@, key, value), !.reference = value]
    ELSE IF key = "Value"
    THEN [symbol EXCEPT !.properties = MapInsert(@, key, value), !.value = value]
    ELSE IF key = "Footprint"
    THEN [symbol EXCEPT !.properties = MapInsert(@, key, value), !.footprint = value]
    ELSE [symbol EXCEPT !.properties = MapInsert(@, key, value)]

SymbolPin(symbol, items) ==
    IF /\ StrAt(items, 1) # None
       /\ Len(items) >= 3
       /\ items[3].kind = "list"
       /\ Tag(items[3].items) = Some("uuid")
       /\ Len(items[3].items) >= 2
    THEN [symbol EXCEPT !.pins =
             MapInsert(@, items[2].s, get_string_value(items[3].items[2]))]
    ELSE symbol

SymbolField(symbol, items, tag) ==
    IF tag = Some("lib_id")
    THEN IF Len(items) >= 2
         THEN [symbol EXCEPT !.lib_id = get_string_value(items[2])] ELSE symbol
    ELSE IF tag = Some("uuid")
    THEN IF Len(items) >= 2
         THEN [symbol EXCEPT !.uuid = get_string_value(items[2])] ELSE symbol
    ELSE IF tag = Some("at")
    THEN [symbol EXCEPT !.at = At3(items)]
    ELSE IF tag = Some("dnp")
    THEN [symbol EXCEPT !.dnp = (SymAt(items, 1) = Some("yes"))]
    ELSE IF tag = Some("in_bom")
    THEN [symbol EXCEPT !.exclude_from_bom = (SymAt(items, 1) = Some("no"))]
    ELSE IF tag = Some("on_board")
    THEN [symbol EXCEPT !.exclude_from_board = (SymAt(items, 1) = Some("no"))]
    ELSE IF tag = Some("property")
    THEN IF StrAt(items, 1) # None /\ Len(items) >= 3
         THEN SymbolProperty(symbol, items[2].s, get_string_value(items[3]))
         ELSE symbol
    ELSE IF tag = Some("pin")
    THEN SymbolPin(symbol, items)
    ELSE symbol

RECURSIVE SchematicSymbolFrom(_, _, _)
SchematicSymbolFrom(list, i, symbol) ==
    IF i > Len(list) THEN symbol
    ELSE IF list[i].kind = "list"
    THEN SchematicSymbolFrom(list, i + 1,
             SymbolField(symbol, list[i].items, Tag(list[i].items)))
    ELSE SchematicSymbolFrom(list, i + 1, symbol)

parse_schematic_symbol(list) ==
    Ok(SchematicSymbolFrom(list, 2, NewSchematicSymbol))

\* KicadSchematic::default()
DefaultSchematic ==
    [version |-> 0, uuid |-> "", lib_symbols |-> EmptyMap, symbols |-> <<>>]

\* One arm of the dispatch of parse_str; the result is an Err where the
\* arm leaves the function with `?`.
SchematicField(schematic, items, tag) ==
    IF tag = Some("version")
    THEN IF Len(items) >= 2
         THEN Ok([schematic EXCEPT !.version = unwrap_or(as_int(items[2]), 0)])
         ELSE Ok(schematic)
    ELSE IF tag = Some("uuid")
    THEN IF Len(items) >= 2
         THEN Ok([schematic EXCEPT !.uuid = get_string_value(items[2])])
         ELSE Ok(schematic)
    ELSE IF tag = Some("lib_symbols")
    THEN IF parse_lib_symbols(items).ok
         THEN Ok([schematic EXCEPT !.lib_symbols = Value(parse_lib_symbols(items))])
         ELSE parse_lib_symbols(items)
    ELSE IF tag = Some("symbol")
    THEN IF parse_schematic_symbol(items).ok
         THEN Ok([schematic EXCEPT
                    !.symbols = Append(@, Value(parse_schematic_symbol(items)))])
         ELSE Ok(schematic)
    ELSE Ok(schematic)

RECURSIVE SchematicFrom(_, _, _)
SchematicFrom(list, i, result) ==
    IF i > Len(list) \/ ~result.ok THEN result
    ELSE IF list[i].kind = "list"
    THEN SchematicFrom(list, i + 1,
             SchematicField(Value(result), list[i].items, Tag(list[i].items)))
    ELSE SchematicFrom(list, i + 1, result)

\* KicadSchematic::parse_str, given the outcome of pcb_sexpr::parse(content).
schematic_parse_str(parsed) ==
    IF ~parsed.ok THEN Err("Failed to parse schematic S-expression")
    ELSE IF as_list(Value(parsed)) = None THEN Err("Expected root list")
    ELSE IF Tag(Value(parsed).items) # Some("kicad_sch")
    THEN Err("Expected kicad_sch root element")
    ELSE SchematicFrom(Value(parsed).items, 2, Ok(DefaultSchematic))

\* ---- parser/pcb.rs --------------------------------------------------------

RECURSIVE GeneralFrom(_, _)
GeneralFrom(list, i) ==
    IF i > Len(list) THEN 16
    ELSE IF list[i].kind = "list" /\ Tag(list[i].items) = Some("thickness")
    THEN unwrap_or(FloatAt(list[i].items, 1), 16)
    ELSE GeneralFrom(list, i + 1)

\* The thickness in tenths of a millimetre; 1.6 when none is given.
parse_general(list) == GeneralFrom(list, 2)

LayerOf(items) ==
    [number |-> IntAt(items, 0)[1],
     name |-> unwrap_or(StringAt(items, 1), ""),
     layer_type |-> unwrap_or(SymAt(items, 2), "user")]

RECURSIVE LayersFrom(_, _, _)
LayersFrom(list, i, layers) ==
    IF i > Len(list) THEN layers
    ELSE IF list[i].kind = "list" /\ IntAt(list[i].items, 0) # None
    THEN LayersFrom(list, i + 1, Append(layers, LayerOf(list[i].items)))
    ELSE LayersFrom(list, i + 1, layers)

parse_layers(list) == LayersFrom(list, 2, <<>>)

PadField(pad, items, tag) ==
    IF tag = Some("at") THEN [pad EXCEPT !.at = At3(items)]
    ELSE IF tag = Some("net")
    THEN [pad EXCEPT !.net_id = unwrap_or(IntAt(items, 1), 0),
                     !.net_name = unwrap_or(StringAt(items, 2), "")]
    ELSE pad

RECURSIVE PadFrom(_, _, _)
PadFrom(list, i, pad) ==
    IF i > Len(list) THEN pad
    ELSE IF list[i].kind = "list"
    THEN PadFrom(list, i + 1, PadField(pad, list[i].items, Tag(list[i].items)))
    ELSE PadFrom(list, i + 1, pad)

\* A parse_pad that leaves the technology and the shape empty when they are not given.
parse_pad_Blank(list) ==
    IF StringAt(list, 1) = None THEN Err("Missing pad number")
    ELSE Ok(PadFrom(list, 5,
                [number |-> StringAt(list, 1)[1],
                 pad_type |-> unwrap_or(SymAt(list, 2), ""),
                 shape |-> unwrap_or(SymAt(list, 3), ""),
                 at |-> <<0, 0, 0>>, net_id |-> 0, net_name |-> ""]))

parse_pad(list) ==
    IF StringAt(list, 1) = None THEN Err("Missing pad number")
    ELSE Ok(PadFrom(list, 5,
                [number |-> StringAt(list, 1)[1],
                 pad_type |-> unwrap_or(SymAt(list, 2), "smd"),
                 shape |-> unwrap_or(SymAt(list, 3), "rect"),
                 at |-> <<0, 0, 0>>, net_id |-> 0, net_name |-> ""]))

RECURSIVE AttrsFrom(_, _, _)
AttrsFrom(items, i, attrs) ==
    IF i > Len(items) THEN attrs
    ELSE IF items[i].kind = "sym"
    THEN AttrsFrom(items, i + 1, Append(attrs, items[i].s))
    ELSE AttrsFrom(items, i + 1, attrs)

FootprintProperty(fp, key, value) ==
    IF key = "Reference"
    THEN [fp EXCEPT !.properties = MapInsert(@, key, value), !.reference = value]
    ELSE IF key = "Value"
    THEN [fp EXCEPT !.properties = MapInsert(@, key, value), !.value = value]
    ELSE [fp EXCEPT !.properties = MapInsert(@, key, value)]

FootprintField(fp, items, tag) ==
    IF tag = Some("uuid")
    THEN [fp EXCEPT !.uuid = unwrap_or(StringAt(items, 1), "")]
    ELSE IF tag = Some("layer")
    THEN [fp EXCEPT !.layer = unwrap_or(StringAt(items, 1), "")]
    ELSE IF tag = Some("at")
    THEN [fp EXCEPT !.at = At3(items)]
    ELSE IF tag = Some("path")
    THEN [fp EXCEPT !.path = unwrap_or(StringAt(items, 1), "")]
    ELSE IF tag = Some("property")
    THEN IF StrAt(items, 1) # None /\ Len(items) >= 3
         THEN FootprintProperty(fp, items[2].s, get_string_value(items[3]))
         ELSE fp
    ELSE IF tag = Some("attr")
    THEN [fp EXCEPT !.attrs = AttrsFrom(items, 2, @)]
    ELSE IF tag = Some("pad")
    THEN IF parse_pad(items).ok
         THEN [fp EXCEPT !.pads = Append(@, Value(parse_pad(items)))]
         ELSE fp
    ELSE fp

RECURSIVE FootprintFrom(_, _, _)
FootprintFrom(list, i, fp) ==
    IF i > Len(list) THEN fp
    ELSE IF list[i].kind = "list"
    THEN FootprintFrom(list, i + 1, FootprintField(fp, list[i].items, Tag(list[i].items)))
    ELSE FootprintFrom(list, i + 1, fp)

parse_footprint(list) ==
    IF StringAt(list, 1) = None THEN Err("Missing footprint name")
    ELSE Ok(FootprintFrom(list, 3,
                [uuid |-> "", footprint |-> StringAt(list, 1)[1], layer |-> "",
                 at |-> <<0, 0, 0>>, path |-> "", reference |-> "",
                 value |-> "", attrs |-> <<>>, pads |-> <<>>,
                 properties |-> EmptyMap]))

\* KicadPcb::default()
DefaultPcb ==
    [version |-> 0, thickness |-> 0, layers |-> <<>>, nets |-> EmptyMap,
     footprints |-> <<>>]

PcbField(pcb, items, tag) ==
    IF tag = Some("version")
    THEN IF Len(items) >= 2
         THEN [pcb EXCEPT !.version = unwrap_or(as_int(items[2]), 0)]
         ELSE pcb
    ELSE IF tag = Some("general")
    THEN [pcb EXCEPT !.thickness = parse_general(items)]
    ELSE IF tag = Some("layers")
    THEN [pcb EXCEPT !.layers = parse_layers(items)]
    ELSE IF tag = Some("net")
    THEN IF IntAt(items, 1) # None /\ Len(items) >= 3
         THEN [pcb EXCEPT !.nets =
                  MapInsert(@, items[2].n, get_string_value(items[3]))]
         ELSE pcb
    ELSE IF tag = Some("footprint")
    THEN IF parse_footprint(items).ok
         THEN [pcb EXCEPT !.footprints = Append(@, Value(parse_footprint(items)))]
         ELSE pcb
    ELSE pcb

RECURSIVE PcbFrom(_, _, _)
PcbFrom(list, i, pcb) ==
    IF i > Len(list) THEN pcb
    ELSE IF list[i].kind = "list"
    THEN PcbFrom(list, i + 1, PcbField(pcb, list[i].items, Tag(list[i].items)))
    ELSE PcbFrom(list, i + 1, pcb)

\* KicadPcb::parse_str, given the outcome of pcb_sexpr::parse(content).
pcb_parse_str(parsed) ==
    IF ~parsed.ok THEN Err("Failed to parse PCB S-expression")
    ELSE IF as_list(Value(parsed)) = None THEN Err("Expected root list")
    ELSE IF Tag(Value(parsed).items) # Some("kicad_pcb")
    THEN Err("Expected kicad_pcb root element")
    ELSE Ok(PcbFrom(Value(parsed).items, 2, DefaultPcb))

\* ---------------------------------------------------------------------------
\* SpecParse: KicadSchematic::parse_str and KicadPcb::parse_str on the
\* outcomes of the tokenizer: a rejection, or a tree whose root is an atom, an
\* empty list, or a list of a head and at most MaxItems elements, well formed
\* or not.
\* ---------------------------------------------------------------------------

MaxItems == 2

Tagged(tag, rest) == ListOf(<<SymbolAtom(tag)>> \o rest)

Property(key, value) == Tagged("property", <<StringAtom(key), StringAtom(value)>>)

LibSymbolItem ==
    Tagged("symbol",
        << StringAtom("Device:R"),
           Property("Reference", "R"),
           Tagged("property", <<StringAtom("Value")>>),
           Tagged("symbol",
               << StringAtom("R_0_1"),
                  Tagged("pin", << SymbolAtom("passive"),
                                   Tagged("name", <<StringAtom("~")>>),
                                   Tagged("number", <<StringAtom("1")>>) >>),
                  Tagged("pin", << SymbolAtom("passive"),
                                   Tagged("name", <<StringAtom("2")>>) >>),
                  Tagged("pin", << StringAtom("input"),
                                   Tagged("number", <<StringAtom("3")>>) >>) >>) >>)

SymbolItem ==
    Tagged("symbol",
        << Tagged("lib_id", <<StringAtom("Device:R")>>),
           Tagged("at", <<IntAtom(100), FloatAtom(505), IntAtom(0)>>),
           Tagged("dnp", <<SymbolAtom("yes")>>),
           Tagged("in_bom", <<SymbolAtom("no")>>),
           Tagged("on_board", <<SymbolAtom("yes")>>),
           Tagged("uuid", <<StringAtom("u1")>>),
           Property("Reference", "R1"),
           Property("Value", "10k"),
           Property("Footprint", "Resistor_SMD:R_0402_1005Metric"),
           Property("Datasheet", "~"),
           Tagged("pin", <<StringAtom("1"), Tagged("uuid", <<StringAtom("p1")>>)>>) >>)

MalformedSymbolItem ==
    Tagged("symbol",
        << Tagged("lib_id", <<>>),
           Tagged("at", <<StringAtom("x")>>),
           Tagged("dnp", <<>>),
           Tagged("in_bom", <<IntAtom(1)>>),
           Tagged("property", <<SymbolAtom("Reference"), StringAtom("R9")>>),
           Tagged("property", <<StringAtom("Value")>>),
           Tagged("pin", <<StringAtom("1"), StringAtom("p1")>>),
           Tagged("pin", <<IntAtom(2)>>),
           IntAtom(3),
           ListOf(<<>>) >>)

StrayItems ==
    { SymbolAtom("stray"), IntAtom(7), ListOf(<<>>),
      ListOf(<<StringAtom("version"), IntAtom(1)>>),
      Tagged("title_block", <<>>) }

SchematicItems ==
    StrayItems \cup
    { Tagged("version", <<IntAtom(20231120)>>),
      Tagged("version", <<>>),
      Tagged("version", <<StringAtom("new")>>),
      Tagged("uuid", <<StringAtom("abc")>>),
      Tagged("uuid", <<>>),
      Tagged("lib_symbols", <<LibSymbolItem>>),
      Tagged("lib_symbols", <<Tagged("symbol", <<>>), Tagged("symbol", <<IntAtom(1)>>)>>),
      SymbolItem,
      Tagged("symbol", <<>>),
      MalformedSymbolItem }

FootprintItem ==
    Tagged("footprint",
        << StringAtom("Resistor_SMD:R_0402_1005Metric"),
           Tagged("layer", <<StringAtom("F.Cu")>>),
           Tagged("uuid", <<StringAtom("f1")>>),
           Tagged("at", <<FloatAtom(1005), IntAtom(50)>>),
           Tagged("path", <<StringAtom("/u1")>>),
           Tagged("attr", <<SymbolAtom("smd"), SymbolAtom("dnp"), StringAtom("x")>>),
           Property("Reference", "R1"),
           Property("Value", "10k"),
           Tagged("pad", << StringAtom("1"), SymbolAtom("smd"), SymbolAtom("roundrect"),
                            Tagged("at", <<IntAtom(1)>>),
                            Tagged("net", <<IntAtom(1), StringAtom("GND")>>) >>),
           Tagged("pad", <<StringAtom("2")>>),
           Tagged("pad", <<>>) >>)

MalformedFootprintItem ==
    Tagged("footprint",
        << IntAtom(5),
           Tagged("layer", <<>>),
           Tagged("path", <<>>),
           Tagged("property", <<StringAtom("Reference")>>),
           Tagged("attr", <<>>),
           Tagged("pad", << IntAtom(1), StringAtom("smd"), IntAtom(0), IntAtom(0),
                            Tagged("net", <<StringAtom("one")>>) >>),
           SymbolAtom("locked") >>)

PcbItems ==
    StrayItems \cup
    { Tagged("version", <<IntAtom(20241229)>>),
      Tagged("version", <<>>),
      Tagged("general", <<Tagged("thickness", <<FloatAtom(8)>>)>>),
      Tagged("general", <<Tagged("thickness", <<StringAtom("thick")>>)>>),
      Tagged("general", <<>>),
      Tagged("layers", << ListOf(<<IntAtom(0), StringAtom("F.Cu"), SymbolAtom("signal")>>),
                          ListOf(<<IntAtom(31)>>),
                          ListOf(<<StringAtom("B.Cu")>>),
                          IntAtom(2) >>),
      Tagged("net", <<IntAtom(1), StringAtom("GND")>>),
      Tagged("net", <<StringAtom("GND")>>),
      Tagged("net", <<IntAtom(2)>>),
      FootprintItem,
      Tagged("footprint", <<>>),
      MalformedFootprintItem }

ItemLists(items) == UNION { [1..n -> items] : n \in 0..MaxItems }

RootTags == {"kicad_sch", "kicad_pcb", "kicad_symbol_lib"}

Trees(items) ==
    { SymbolAtom("kicad_sch"), SymbolAtom("kicad_pcb"), StringAtom("kicad_sch"),
      IntAtom(1), ListOf(<<>>), ListOf(<<Tagged("kicad_sch", <<>>)>>),
      ListOf(<<Tagged("kicad_pcb", <<>>)>>) }
    \cup { Tagged(tag, rest) : tag \in RootTags, rest \in ItemLists(items) }
    \cup { ListOf(<<StringAtom(tag)>> \o rest) :
              tag \in {"kicad_sch", "kicad_pcb"}, rest \in ItemLists(items) }

\* The outcomes of pcb_sexpr::parse(content).
Parsed(items) == {Err("tokenizer")} \cup { Ok(tree) : tree \in Trees(items) }

InitParse ==
    /\ pc = "call"
    /\ \/ op = "KicadSchematic::parse_str" /\ arg \in Parsed(SchematicItems)
       \/ op = "KicadPcb::parse_str" /\ arg \in Parsed(PcbItems)
    /\ ret = NoRet
    /\ ret2 = NoRet

ParseSchematic ==
    /\ pc = "call"
    /\ op = "KicadSchematic::parse_str"
    /\ ret' = schematic_parse_str(arg)
    /\ pc' = "ret"
    /\ UNCHANGED <<op, arg, ret2>>

ParsePcb ==
    /\ pc = "call"
    /\ op = "KicadPcb::parse_str"
    /\ ret' = pcb_parse_str(arg)
    /\ pc' = "ret"
    /\ UNCHANGED <<op, arg, ret2>>

NextParse == ParseSchematic \/ ParsePcb

SpecParse == InitParse /\ [][NextParse]_vars

Parsers == {"KicadSchematic::parse_str", "KicadPcb::parse_str"}

ExpectedTag(parser) ==
    IF parser = "KicadSchematic::parse_str" THEN "kicad_sch" ELSE "kicad_pcb"

\* The tokenizer accepted the content and the root is a list whose first
\* element is the symbol tag.
RootIs(parsed, tag) ==
    /\ parsed.ok
    /\ Value(parsed).kind = "list"
    /\ Len(Value(parsed).items) >= 1
    /\ Value(parsed).items[1] = SymbolAtom(tag)

IsSchematic(model) ==
    DOMAIN model = {"version", "uuid", "lib_symbols", "symbols"}

IsPcb(model) ==
    DOMAIN model = {"version", "thickness", "layers", "nets", "footprints"}

IsModelOf(parser, model) ==
    IF parser = "KicadSchematic::parse_str" THEN IsSchematic(model) ELSE IsPcb(model)

\* C14: the schematic parser and the PCB parser fail exactly when the
\* tokenizer rejects the content or the root is not a list headed by the
\* expected tag (kicad_sch, kicad_pcb), and then return an error and no
\* model; once the root tag matches they return a model for every tree,
\* whatever elements under the root are missing or malformed.
C14_ParseFailsOnlyAtRoot ==
    (pc = "ret" /\ op \in Parsers) =>
        /\ ret.ok <=> RootIs(arg, ExpectedTag(op))
        /\ ret.ok => ret.v # None /\ IsModelOf(op, Value(ret))
        /\ ~ret.ok => ret.v = None

\* A tree with the right root whose only element is a footprint without a
\* name, or a library of symbols without names, has been parsed.
C14_Witness ==
    /\ pc = "ret"
    /\ op \in Parsers
    /\ RootIs(arg, ExpectedTag(op))
    /\ Len(Value(arg).items) = 2
    /\ Value(arg).items[2] \in { Tagged("footprint", <<>>),
                        Tagged("lib_symbols", <<Tagged("symbol", <<>>),
                                                Tagged("symbol", <<IntAtom(1)>>)>>) }
    /\ ret.ok

\* ---------------------------------------------------------------------------
\* parser/project.rs: KicadPro::parse_str.
\*
\* A JSON document is a record of Options, None for a member that is absent:
\* [board, net_settings], board = [design_settings], design_settings = [rules],
\* rules = the six minimums, net_settings = [classes], classes a list of
\* [name, track_width, ...].  Lengths are counted in hundredths of a
\* millimetre.  The content that is no JSON of these types is None.
\* ---------------------------------------------------------------------------

NumericFields ==
    << "track_width", "clearance", "via_diameter", "via_drill",
       "diff_pair_width", "diff_pair_gap" >>

default_track_width == 20

default_clearance == 20

default_via_diameter == 60

default_via_drill == 30

default_diff_pair_width == 20

default_diff_pair_gap == 25

\* #[derive(Deserialize)] of NetClassJson: name is required, each number has
\* its #[serde(default = ..)].
DeserializeNetClass(class) ==
    IF class.name = None THEN Err("missing field name")
    ELSE Ok([name |-> class.name[1],
             track_width |-> unwrap_or(class.track_width, default_track_width),
             clearance |-> unwrap_or(class.clearance, default_clearance),
             via_diameter |-> unwrap_or(class.via_diameter, default_via_diameter),
             via_drill |-> unwrap_or(class.via_drill, default_via_drill),
             diff_pair_width |-> unwrap_or(class.diff_pair_width, default_diff_pair_width),
             diff_pair_gap |-> unwrap_or(class.diff_pair_gap, default_diff_pair_gap)])

\* Vec<NetClassJson>: the first element that fails fails the list.
RECURSIVE DeserializeClasses(_, _, _)
DeserializeClasses(classes, i, done) ==
    IF i > Len(classes) THEN Ok(done)
    ELSE IF ~DeserializeNetClass(classes[i]).ok THEN DeserializeNetClass(classes[i])
    ELSE DeserializeClasses(classes, i + 1,
             Append(done, Value(DeserializeNetClass(classes[i]))))

\* #[derive(Deserialize)] of NetSettingsJson: classes is required.
DeserializeNetSettings(net_settings) ==
    IF net_settings.classes = None THEN Err("missing field classes")
    ELSE DeserializeClasses(net_settings.classes[1], 1, <<>>)

\* DesignRules::default()
DefaultDesignRules ==
    [min_clearance |-> 0, min_track_width |-> 0, min_via_diameter |-> 0,
     min_via_drill |-> 0, min_hole_clearance |-> 0,
     min_copper_edge_clearance |-> 0]

DesignRulesOf(rules) ==
    [min_clearance |-> unwrap_or(rules.min_clearance, 0),
     min_track_width |-> unwrap_or(rules.min_track_width, 0),
     min_via_diameter |-> unwrap_or(rules.min_via_diameter, 50),
     min_via_drill |-> unwrap_or(rules.min_via_drill, 0),
     min_hole_clearance |-> unwrap_or(rules.min_hole_clearance, 25),
     min_copper_edge_clearance |-> unwrap_or(rules.min_copper_edge_clearance, 50)]

design_rules(json) ==
    IF json.board = None THEN DefaultDesignRules
    ELSE IF json.board[1].design_settings = None THEN DefaultDesignRules
    ELSE IF json.board[1].design_settings[1].rules = None THEN DefaultDesignRules
    ELSE DesignRulesOf(json.board[1].design_settings[1].rules[1])

\* KicadPro::parse_str, given the document that content holds.
project_parse_str(content) ==
    IF content = None THEN Err("Failed to parse project JSON")
    ELSE IF content[1].net_settings = None
    THEN Ok([net_classes |-> <<>>, design_rules |-> design_rules(content[1])])
    ELSE IF ~DeserializeNetSettings(content[1].net_settings[1]).ok
    THEN Err("Failed to parse project JSON")
    ELSE Ok([net_classes |-> Value(DeserializeNetSettings(content[1].net_settings[1])),
             design_rules |-> design_rules(content[1])])

\* ---------------------------------------------------------------------------
\* SpecSettings: KicadPro::parse_str on documents with members absent at
\* every level and with at most MaxClasses net classes.
\* ---------------------------------------------------------------------------

MaxClasses == 2

NoNumbers ==
    [track_width |-> None, clearance |-> None, via_diameter |-> None,
     via_drill |-> None, diff_pair_width |-> None, diff_pair_gap |-> None]

AllNumbers ==
    [track_width |-> Some(25), clearance |-> Some(15), via_diameter |-> Some(80),
     via_drill |-> Some(40), diff_pair_width |-> Some(10), diff_pair_gap |-> Some(30)]

\* The numbers of a class: none, all, all but one, or one only.
ClassNumbers ==
    {NoNumbers, AllNumbers}
    \cup { [AllNumbers EXCEPT ![NumericFields[k]] = None] : k \in 1..6 }
    \cup { [NoNumbers EXCEPT ![NumericFields[k]] = AllNumbers[NumericFields[k]]] : k \in 1..6 }

Named(name, numbers) ==
    [name |-> name,
     track_width |-> numbers.track_width, clearance |-> numbers.clearance,
     via_diameter |-> numbers.via_diameter, via_drill |-> numbers.via_drill,
     diff_pair_width |-> numbers.diff_pair_width,
     diff_pair_gap |-> numbers.diff_pair_gap]

ClassDocuments ==
    { Named(Some("Default"), numbers) : numbers \in ClassNumbers }
    \cup { Named(None, NoNumbers), Named(None, AllNumbers),
           Named(Some("Power"), AllNumbers) }

ClassLists == UNION { [1..n -> ClassDocuments] : n \in 0..MaxClasses }

NetSettingsDocuments ==
    {None, Some([classes |-> None])}
    \cup { Some([classes |-> Some(classes)]) : classes \in ClassLists }

NoRules ==
    [min_clearance |-> None, min_track_width |-> None, min_via_diameter |-> None,
     min_via_drill |-> None, min_hole_clearance |-> None,
     min_copper_edge_clearance |-> None]

RulesDocuments ==
    { NoRules,
      [NoRules EXCEPT !.min_clearance = Some(20), !.min_via_drill = Some(30)],
      [min_clearance |-> Some(15), min_track_width |-> Some(12),
       min_via_diameter |-> Some(45), min_via_drill |-> Some(20),
       min_hole_clearance |-> Some(30), min_copper_edge_clearance |-> Some(40)] }

BoardDocuments ==
    { None, Some([design_settings |-> None]),
      Some([design_settings |-> Some([rules |-> None])]) }
    \cup { Some([design_settings |-> Some([rules |-> Some(rules)])]) :
              rules \in RulesDocuments }

ProjectDocuments ==
    { [board |-> board, net_settings |-> net_settings] :
         board \in BoardDocuments, net_settings \in NetSettingsDocuments }

InitSettings ==
    /\ pc = "call"
    /\ op = "KicadPro::parse_str"
    /\ arg \in {None} \cup { Some(json) : json \in ProjectDocuments }
    /\ ret = NoRet
    /\ ret2 = NoRet

ParseSettings ==
    /\ pc = "call"
    /\ op = "KicadPro::parse_str"
    /\ ret' = project_parse_str(arg)
    /\ pc' = "ret"
    /\ UNCHANGED <<op, arg, ret2>>

NextSettings == ParseSettings

SpecSettings == InitSettings /\ [][NextSettings]_vars

Default(field) ==
    CASE field = "track_width" -> 20
      [] field = "clearance" -> 20
      [] field = "via_diameter" -> 60
      [] field = "via_drill" -> 30
      [] field = "diff_pair_width" -> 20
      [] field = "diff_pair_gap" -> 25

ClassesOf(json) ==
    IF json.net_settings = None \/ json.net_settings[1].classes = None
    THEN <<>> ELSE json.net_settings[1].classes[1]

\* The net classes of the result are those of the document, each numeric
\* field the document's, or the declared default where the document has none.
DefaultsApplied(json, pro) ==
    /\ Len(pro.net_classes) = Len(ClassesOf(json))
    /\ \A i \in 1..Len(pro.net_classes) : \A k \in 1..6 :
          pro.net_classes[i][NumericFields[k]] =
             IF ClassesOf(json)[i][NumericFields[k]] = None
             THEN Default(NumericFields[k])
             ELSE ClassesOf(json)[i][NumericFields[k]][1]

\* C17: the settings parser succeeds on every JSON document of the shape
\* { board: { design_settings: { rules } }, net_settings: { classes } } with
\* any members absent at any level, and every absent numeric field of a net
\* class takes its default: track width 0.2, clearance 0.2, via diameter 0.6,
\* via drill 0.3, diff-pair width 0.2, diff-pair gap 0.25.
C17_SettingsAlwaysParse ==
    (pc = "ret" /\ op = "KicadPro::parse_str" /\ arg # None) =>
        /\ ret.ok
        /\ DefaultsApplied(arg[1], Value(ret))

\* ---------------------------------------------------------------------------
\* lib.rs: KicadProject::parse, one step per directory entry.
\*
\* A directory is [dir, listed, entries]: listed is FALSE when read_dir fails;
\* an entry is [ok, file_name, readable, content], ok FALSE when the iterator
\* yields an error in its place, readable FALSE when read_to_string fails.
\* While the loop runs, ret2 holds the locals: the index i of the next entry,
\* the project so far, and the files read so far.
\* ---------------------------------------------------------------------------

\* Path::file_name: the last component, none for "..", "." and the root.
file_name(dir) ==
    IF From(dir, LastIndexOf(dir, "/", Len(dir)) + 1) \in {"", ".", ".."}
    THEN None
    ELSE Some(From(dir, LastIndexOf(dir, "/", Len(dir)) + 1))

\* Path::extension: the part of the file name after its last dot, none when
\* there is no dot or the only dot begins the name.
extension(name) ==
    IF name = ".." \/ LastIndexOf(name, ".", Len(name)) <= 1 THEN None
    ELSE Some(From(name, LastIndexOf(name, ".", Len(name)) + 1))

\* What the tokenizer makes of a file's content.
SexprContent(content) ==
    CASE content = "sch_a" -> Ok(Tagged("kicad_sch", <<Tagged("version", <<IntAtom(20231120)>>)>>))
      [] content = "sch_b" -> Ok(Tagged("kicad_sch", <<SymbolItem>>))
      [] content = "pcb_a" -> Ok(Tagged("kicad_pcb", <<Tagged("net", <<IntAtom(1), StringAtom("GND")>>)>>))
      [] content = "pcb_b" -> Ok(Tagged("kicad_pcb", <<FootprintItem>>))
      [] OTHER -> Err("tokenizer")

\* The JSON document of a file's content, if it is one.
JsonContent(content) ==
    CASE content = "pro_a" -> Some([board |-> None, net_settings |-> None])
      [] content = "pro_b" ->
            Some([board |-> None,
                  net_settings |-> Some([classes |-> Some(<<Named(Some("Default"), NoNumbers)>>)])])
      [] content = "pro_unnamed" ->
            Some([board |-> None,
                  net_settings |-> Some([classes |-> Some(<<Named(None, AllNumbers)>>)])])
      [] OTHER -> None

\* KicadSchematic::parse, KicadPcb::parse, KicadPro::parse of the entry's path.
ParseFile(ext, entry) ==
    IF ~entry.readable THEN Err("Failed to read file")
    ELSE IF ext = "kicad_sch" THEN schematic_parse_str(SexprContent(entry.content))
    ELSE IF ext = "kicad_pcb" THEN pcb_parse_str(SexprContent(entry.content))
    ELSE project_parse_str(JsonContent(entry.content))

RecognizedExtensions == {"kicad_sch", "kicad_pcb", "kicad_pro"}

IsMatched(entry) ==
    /\ extension(entry.file_name) # None
    /\ extension(entry.file_name)[1] \in RecognizedExtensions

\* A slot that keeps the first file of an extension.
SetSlot_FirstWins(project, ext, model) ==
    IF ext = "kicad_sch"
    THEN IF project.schematic = None THEN [project EXCEPT !.schematic = Some(model)] ELSE project
    ELSE IF ext = "kicad_pcb"
    THEN IF project.pcb = None THEN [project EXCEPT !.pcb = Some(model)] ELSE project
    ELSE IF project.project = None THEN [project EXCEPT !.project = Some(model)] ELSE project

\* project.schematic = Some(..), project.pcb = Some(..), project.project = Some(..)
SetSlot(project, ext, model) ==
    IF ext = "kicad_sch" THEN [project EXCEPT !.schematic = Some(model)]
    ELSE IF ext = "kicad_pcb" THEN [project EXCEPT !.pcb = Some(model)]
    ELSE [project EXCEPT !.project = Some(model)]

\* A loop body that goes on to the next entry when a file fails.
EntryStep_SkipFailed(locals, entry) ==
    IF ~entry.ok
    THEN [done |-> TRUE, result |-> Err("entry"), locals |-> locals]
    ELSE IF ~IsMatched(entry)
    THEN [done |-> FALSE, result |-> Err(""),
          locals |-> [locals EXCEPT !.i = @ + 1]]
    ELSE IF ~ParseFile(extension(entry.file_name)[1], entry).ok
    THEN [done |-> FALSE, result |-> Err(""),
          locals |-> [locals EXCEPT !.i = @ + 1,
                                    !.reads = Append(@, entry.file_name)]]
    ELSE [done |-> FALSE, result |-> Err(""),
          locals |-> [locals EXCEPT
                        !.i = @ + 1,
                        !.reads = Append(@, entry.file_name),
                        !.project = SetSlot(@, extension(entry.file_name)[1],
                                      Value(ParseFile(extension(entry.file_name)[1], entry)))]]

\* The body of the loop on one entry: done when it leaves the function with
\* `?`, and then result is the error returned.
EntryStep(locals, entry) ==
    IF ~entry.ok
    THEN [done |-> TRUE, result |-> Err("entry"), locals |-> locals]
    ELSE IF ~IsMatched(entry)
    THEN [done |-> FALSE, result |-> Err(""),
          locals |-> [locals EXCEPT !.i = @ + 1]]
    ELSE IF ~ParseFile(extension(entry.file_name)[1], entry).ok
    THEN [done |-> TRUE,
          result |-> ParseFile(extension(entry.file_name)[1], entry),
          locals |-> [locals EXCEPT !.reads = Append(@, entry.file_name)]]
    ELSE [done |-> FALSE, result |-> Err(""),
          locals |-> [locals EXCEPT
                        !.i = @ + 1,
                        !.reads = Append(@, entry.file_name),
                        !.project = SetSlot(@, extension(entry.file_name)[1],
                                      Value(ParseFile(extension(entry.file_name)[1], entry)))]]

NewProject(dir) ==
    [name |-> unwrap_or(file_name(dir), "project"),
     schematic |-> None, pcb |-> None, project |-> None]

\* ---------------------------------------------------------------------------
\* SpecAssemble: KicadProject::parse on directories of at most MaxEntries
\* entries with distinct file names.
\* ---------------------------------------------------------------------------

MaxEntries == 2

File(name, content) ==
    [ok |-> TRUE, file_name |-> name, readable |-> TRUE, content |-> content]

Unreadable(name) ==
    [ok |-> TRUE, file_name |-> name, readable |-> FALSE, content |-> ""]

EntryError ==
    [ok |-> FALSE, file_name |-> "", readable |-> FALSE, content |-> ""]

EntryPool ==
    { File("a.kicad_sch", "sch_a"), File("b.kicad_sch", "sch_b"),
      File("c.kicad_sch", "pcb_a"), File("d.kicad_sch", "text"),
      Unreadable("e.kicad_sch"),
      File("a.kicad_pcb", "pcb_a"), File("x.y.kicad_pcb", "pcb_b"),
      File("c.kicad_pcb", "sch_a"), Unreadable("d.kicad_pcb"),
      File("a.kicad_pro", "pro_a"), File("b.kicad_pro", "pro_b"),
      File("c.kicad_pro", "pro_unnamed"), File("d.kicad_pro", "text"),
      File("README.md", "text"), File("Makefile", "text"),
      File(".kicad_sch", "sch_a"), File("a.KICAD_SCH", "sch_a"),
      File("a.kicad_sch.bak", "sch_a"), File("fp-lib-table", "text"),
      Unreadable("notes.txt"),
      EntryError }

DistinctNames(entries) ==
    \A i, j \in 1..Len(entries) :
        (i # j /\ entries[i].ok /\ entries[j].ok) =>
            entries[i].file_name # entries[j].file_name

EntryLists ==
    { entries \in UNION { [1..n -> EntryPool] : n \in 0..MaxEntries } :
         DistinctNames(entries) }

Directories ==
    { [dir |-> dir, listed |-> TRUE, entries |-> entries] :
         dir \in {"boards/demo"}, entries \in EntryLists }
    \cup { [dir |-> dir, listed |-> listed, entries |-> <<File("a.kicad_sch", "sch_a")>>] :
              dir \in {"boards/demo", "demo", "..", "/", "."}, listed \in BOOLEAN }

InitAssemble ==
    /\ pc = "call"
    /\ op = "KicadProject::parse"
    /\ arg \in Directories
    /\ ret = NoRet
    /\ ret2 = NoRet

\* read_dir(dir).with_context(..)?
ReadDir ==
    /\ pc = "call"
    /\ op = "KicadProject::parse"
    /\ ret2' = [i |-> 1, project |-> NewProject(arg.dir), reads |-> <<>>]
    /\ IF arg.listed
       THEN pc' = "loop" /\ ret' = ret
       ELSE pc' = "ret" /\ ret' = Err("Failed to read directory")
    /\ UNCHANGED <<op, arg>>

\* One turn of `for entry in ..`.
NextEntry ==
    /\ pc = "loop"
    /\ ret2.i <= Len(arg.entries)
    /\ ret2' = EntryStep(ret2, arg.entries[ret2.i]).locals
    /\ IF EntryStep(ret2, arg.entries[ret2.i]).done
       THEN pc' = "ret" /\ ret' = EntryStep(ret2, arg.entries[ret2.i]).result
       ELSE pc' = pc /\ ret' = ret
    /\ UNCHANGED <<op, arg>>

\* Ok(project)
ReturnProject ==
    /\ pc = "loop"
    /\ ret2.i > Len(arg.entries)
    /\ ret' = Ok(ret2.project)
    /\ pc' = "ret"
    /\ UNCHANGED <<op, arg, ret2>>

NextAssemble == ReadDir \/ NextEntry \/ ReturnProject

SpecAssemble == InitAssemble /\ [][NextAssemble]_vars

\* The entry cannot be enumerated, or it has a recognized extension and
\* cannot be read or does not parse.
Fails(entry) ==
    \/ ~entry.ok
    \/ /\ IsMatched(entry)
       /\ ~ParseFile(extension(entry.file_name)[1], entry).ok

HasExtension(entry, ext) == entry.ok /\ extension(entry.file_name) = Some(ext)

\* The slot of ext after the entries: the parse result of the last entry
\* with that extension, None if there is none.
RECURSIVE LastOf(_, _, _)
LastOf(entries, ext, i) ==
    IF i < 1 THEN None
    ELSE IF HasExtension(entries[i], ext)
    THEN Some(Value(ParseFile(ext, entries[i])))
    ELSE LastOf(entries, ext, i - 1)

\* C15: when the directory is listed and every matched file parses, the
\* assembler succeeds and each of the three slots (schematic, PCB, settings)
\* holds the parse result of the last entry, in enumeration order, with that
\* extension, or is absent if no entry had it; entries with other extensions
\* or with none change nothing, and with no recognized file at all the
\* project has all three slots absent.
C15_LastFileWins ==
    ( /\ pc = "ret"
      /\ op = "KicadProject::parse"
      /\ arg.listed
      /\ \A i \in 1..Len(arg.entries) : ~Fails(arg.entries[i]) ) =>
        /\ ret.ok
        /\ Value(ret).schematic = LastOf(arg.entries, "kicad_sch", Len(arg.entries))
        /\ Value(ret).pcb = LastOf(arg.entries, "kicad_pcb", Len(arg.entries))
        /\ Value(ret).project = LastOf(arg.entries, "kicad_pro", Len(arg.entries))
        /\ ( (\A i \in 1..Len(arg.entries) : ~IsMatched(arg.entries[i])) =>
                Value(ret) = NewProject(arg.dir) )

\* Two schematics with different contents have been assembled.
C15_Witness ==
    /\ pc = "ret"
    /\ op = "KicadProject::parse"
    /\ arg.listed
    /\ Len(arg.entries) = 2
    /\ HasExtension(arg.entries[1], "kicad_sch")
    /\ HasExtension(arg.entries[2], "kicad_sch")
    /\ ret.ok
    /\ Value(ret).schematic # None
    /\ Value(ret).schematic = Some(Value(ParseFile("kicad_sch", arg.entries[2])))
    /\ Value(ret).schematic # Some(Value(ParseFile("kicad_sch", arg.entries[1])))

FailingEntries(entries) == { i \in 1..Len(entries) : Fails(entries[i]) }

FirstFailing(entries) ==
    CHOOSE i \in FailingEntries(entries) : \A j \in FailingEntries(entries) : i <= j

\* The file names of the matched entries among the first n.
RECURSIVE MatchedUpTo(_, _)
MatchedUpTo(entries, n) ==
    IF n < 1 THEN <<>>
    ELSE IF entries[n].ok /\ IsMatched(entries[n])
    THEN Append(MatchedUpTo(entries, n - 1), entries[n].file_name)
    ELSE MatchedUpTo(entries, n - 1)

\* C16: the assembler returns an error, and no project, as soon as the
\* directory cannot be listed or a matched file cannot be read or does not
\* parse, even when files before it (one of the same extension too) were
\* parsed; the failing file is read once and no entry after it is processed.
C16_FirstFailureAborts ==
    /\ (pc = "ret" /\ op = "KicadProject::parse" /\ ~arg.listed) =>
          ~ret.ok /\ ret.v = None /\ ret2.reads = <<>>
    /\ (pc = "ret" /\ op = "KicadProject::parse" /\ arg.listed
          /\ FailingEntries(arg.entries) # {}) =>
          /\ ~ret.ok
          /\ ret.v = None
          /\ ret2.i = FirstFailing(arg.entries)
          /\ ret2.reads = MatchedUpTo(arg.entries, FirstFailing(arg.entries))
    /\ (pc = "loop" /\ op = "KicadProject::parse") =>
          \A i \in 1..(ret2.i - 1) : ~Fails(arg.entries[i])

\* A second schematic failed after a first one was parsed.
C16_Witness ==
    /\ pc = "ret"
    /\ op = "KicadProject::parse"
    /\ Len(arg.entries) = 2
    /\ HasExtension(arg.entries[1], "kicad_sch")
    /\ HasExtension(arg.entries[2], "kicad_sch")
    /\ ~Fails(arg.entries[1])
    /\ Fails(arg.entries[2])
    /\ ret2.project.schematic # None
    /\ ~ret.ok

\* ---------------------------------------------------------------------------
\* The flags of a block
\* ---------------------------------------------------------------------------

\* the lines of the given kind in the block that line i opens
LinesOfKind(out, i, kind) == {k \in i..BlockEnd(out, i) : out[k].kind = kind}

\* C21: the block of a mapped symbol carries the do-not-populate argument if and only
\* if the dnp flag of the symbol is set, and the exclude-from-BOM argument if and only
\* if its exclude_from_bom flag is set.
C21_PopulateFlags ==
    (Rendered /\ ~(op = "emit::emit_zen" /\ arg.mode = "Faithful")) =>
        \A n \in DOMAIN PlacedSymbols(arg.project) :
            map_symbol(PlacedSymbols(arg.project)[n].lib_id) # None =>
                \E i \in DOMAIN ret :
                    /\ OpensBlock(ret, i, n)
                    /\ Cardinality(LinesOfKind(ret, i, "dnp")) =
                           (IF PlacedSymbols(arg.project)[n].dnp THEN 1 ELSE 0)
                    /\ Cardinality(LinesOfKind(ret, i, "skip_bom")) =
                           (IF PlacedSymbols(arg.project)[n].exclude_from_bom THEN 1 ELSE 0)
                    /\ \A k \in LinesOfKind(ret, i, "dnp") : contains(ret[k].text, "dnp")
                    /\ \A k \in LinesOfKind(ret, i, "skip_bom") : contains(ret[k].text, "skip_bom")

\* ---------------------------------------------------------------------------
\* The join of symbols and footprints, and the pin assignments
\* ---------------------------------------------------------------------------

\* the path without its leading separators
RECURSIVE Stripped(_)
Stripped(path) == IF At(path, 1) = "/" THEN Stripped(From(path, 2)) ELSE path

\* the footprints of the project whose stripped path is the uuid
JoinCandidates(project, uuid) ==
    IF project.pcb = None THEN {}
    ELSE {k \in DOMAIN project.pcb[1].footprints :
             Stripped(project.pcb[1].footprints[k].path) = uuid}

\* the text without its blanks
RECURSIVE Unspaced(_)
Unspaced(text) ==
    IF text = "" THEN ""
    ELSE IF At(text, 1) = " " THEN Unspaced(From(text, 2))
    ELSE At(text, 1) \o Unspaced(From(text, 2))

\* the pin of the table for the pad number, the pad number when the table has none
TablePin(table, number) ==
    IF \E k \in DOMAIN table : table[k][1] = number
    THEN table[CHOOSE k \in DOMAIN table : table[k][1] = number][2]
    ELSE number

\* the assignments to expect for the pads of a footprint under a pin table
Assignments(pads, table) ==
    [k \in DOMAIN SelectSeq(pads, IsSurfacedPad) |->
        TablePin(table, SelectSeq(pads, IsSurfacedPad)[k].number) \o "="
          \o sanitize_name(SelectSeq(pads, IsSurfacedPad)[k].net_name) \o ","]

\* the pin assignments of the block that line i opens, without their blanks
AssignmentsOf(out, i) ==
    [k \in DOMAIN SelectSeq(SubSeq(out, i, BlockEnd(out, i)), IsPinLine) |->
        Unspaced(SelectSeq(SubSeq(out, i, BlockEnd(out, i)), IsPinLine)[k].text)]

KindOf(fp) ==
    IF infer_component_type(fp.footprint) # "Unknown"
    THEN infer_component_type(fp.footprint)
    ELSE infer_type_from_reference(fp.reference)

\* the lines of the output that carry the reference of a block
ReferenceLines(out) == SelectSeq(out, IsReferenceLine)

\* C23: for a project with a board and no schematic the emitter writes one block per
\* footprint, in the order of the board: the kind of the footprint is what its name
\* says, and what its reference says only when the name says nothing; a footprint whose
\* kind has a template gets a call of that template, with its pads filtered and mapped
\* as for a symbol, and a footprint of no such kind gets the unmapped fallback.
C23_BoardDriven ==
    (Rendered /\ arg.project.schematic = None /\ arg.project.pcb # None) =>
        /\ Len(ReferenceLines(ret)) = Len(arg.project.pcb[1].footprints)
        /\ \A n \in DOMAIN arg.project.pcb[1].footprints :
              /\ n <= Len(ReferenceLines(ret))
              /\ contains(ReferenceLines(ret)[n].text, arg.project.pcb[1].footprints[n].reference)
              /\ IF module_name(KindOf(arg.project.pcb[1].footprints[n])) # None
                 THEN \E i \in DOMAIN ret :
                         /\ OpensBlock(ret, i, n)
                         /\ ret[i].text =
                               module_name(KindOf(arg.project.pcb[1].footprints[n]))[1] \o "("
                         /\ AssignmentsOf(ret, i) =
                               Assignments(arg.project.pcb[1].footprints[n].pads,
                                           pin_map(KindOf(arg.project.pcb[1].footprints[n])))
                 ELSE ReferenceLines(ret)[n].kind = "todo"

\* ---------------------------------------------------------------------------
\* What the parsers leave in a field whose element is missing or malformed
\* ---------------------------------------------------------------------------

\* the elements of a list, from the from-th on, that are lists headed by the tag
ChildrenTagged(items, from, tag) ==
    SelectSeq(SubSeq(items, from, Len(items)),
              LAMBDA x : x.kind = "list" /\ Tag(x.items) = Some(tag))

FinalOf(seq) == seq[Len(seq)]

\* no element of this tag gives a string (or a symbol) that is not empty
NoStringGiven(items, from, tag) ==
    \A k \in DOMAIN ChildrenTagged(items, from, tag) :
        unwrap_or(StringAt(ChildrenTagged(items, from, tag)[k].items, 1), "") = ""

\* no property of this key gives a value that is not empty
NoPropertyGiven(items, from, key) ==
    \A k \in DOMAIN ChildrenTagged(items, from, "property") :
        \/ StrAt(ChildrenTagged(items, from, "property")[k].items, 1) # Some(key)
        \/ unwrap_or(StringAt(ChildrenTagged(items, from, "property")[k].items, 2), "") = ""

\* the thickness of the board, given the elements of the root and what a general
\* element without a usable thickness leaves
ThicknessLeft(root, without) ==
    IF ChildrenTagged(root, 2, "general") = <<>> THEN 0
    ELSE IF ChildrenTagged(FinalOf(ChildrenTagged(root, 2, "general")).items, 2, "thickness") = <<>>
    THEN without
    ELSE unwrap_or(
            FloatAt(ChildrenTagged(FinalOf(ChildrenTagged(root, 2, "general")).items,
                                   2, "thickness")[1].items, 1),
            without)

\* the version: 0 unless an element gives an integer
VersionLeft(root, version) ==
    (\A k \in DOMAIN ChildrenTagged(root, 2, "version") :
        IntAt(ChildrenTagged(root, 2, "version")[k].items, 1) = None) => version = 0

\* the elements of a layers element that make a layer
LayerItems(layers) ==
    SelectSeq(SubSeq(layers, 2, Len(layers)),
              LAMBDA x : x.kind = "list" /\ IntAt(x.items, 0) # None)

LayersLeft(root, layers, without) ==
    IF ChildrenTagged(root, 2, "layers") = <<>> THEN layers = <<>>
    ELSE /\ Len(layers) = Len(LayerItems(FinalOf(ChildrenTagged(root, 2, "layers")).items))
         /\ \A k \in DOMAIN layers :
               /\ layers[k].name =
                     unwrap_or(StringAt(LayerItems(FinalOf(ChildrenTagged(root, 2, "layers")).items)[k].items, 1), "")
               /\ layers[k].layer_type =
                     unwrap_or(SymAt(LayerItems(FinalOf(ChildrenTagged(root, 2, "layers")).items)[k].items, 2),
                               without)

\* the elements of a list that make a footprint, or a pad: those with a second element
WithSecond(items, from, tag) ==
    SelectSeq(ChildrenTagged(items, from, tag), LAMBDA x : Len(x.items) >= 2)

PadLeft(item, pad, technology, shape) ==
    /\ pad.number = get_string_value(item[2])
    /\ pad.pad_type = unwrap_or(SymAt(item, 2), technology)
    /\ pad.shape = unwrap_or(SymAt(item, 3), shape)
    /\ ChildrenTagged(item, 5, "at") = <<>> => pad.at = <<0, 0, 0>>
    /\ ChildrenTagged(item, 5, "at") # <<>> => pad.at = At3(FinalOf(ChildrenTagged(item, 5, "at")).items)
    /\ ChildrenTagged(item, 5, "net") = <<>> => pad.net_id = 0 /\ pad.net_name = ""
    /\ (\A k \in DOMAIN ChildrenTagged(item, 5, "net") :
          unwrap_or(StringAt(ChildrenTagged(item, 5, "net")[k].items, 2), "") = "")
          => pad.net_name = ""
    /\ (\A k \in DOMAIN ChildrenTagged(item, 5, "net") :
          IntAt(ChildrenTagged(item, 5, "net")[k].items, 1) = None) => pad.net_id = 0

FootprintLeft(item, fp, technology, shape) ==
    /\ fp.footprint = get_string_value(item[2])
    /\ NoStringGiven(item, 3, "uuid") => fp.uuid = ""
    /\ NoStringGiven(item, 3, "layer") => fp.layer = ""
    /\ NoStringGiven(item, 3, "path") => fp.path = ""
    /\ NoPropertyGiven(item, 3, "Reference") => fp.reference = ""
    /\ NoPropertyGiven(item, 3, "Value") => fp.value = ""
    /\ ChildrenTagged(item, 3, "at") = <<>> => fp.at = <<0, 0, 0>>
    /\ ChildrenTagged(item, 3, "attr") = <<>> => fp.attrs = <<>>
    /\ Len(fp.pads) = Len(WithSecond(item, 3, "pad"))
    /\ \A j \in DOMAIN fp.pads :
          j <= Len(WithSecond(item, 3, "pad"))
          /\ PadLeft(WithSecond(item, 3, "pad")[j].items, fp.pads[j], technology, shape)

PcbLeft(root, pcb, thickness, layer, technology, shape) ==
    /\ pcb.thickness = ThicknessLeft(root, thickness)
    /\ VersionLeft(root, pcb.version)
    /\ LayersLeft(root, pcb.layers, layer)
    /\ ChildrenTagged(root, 2, "net") = <<>> => pcb.nets = EmptyMap
    /\ Len(pcb.footprints) = Len(WithSecond(root, 2, "footprint"))
    /\ \A k \in DOMAIN pcb.footprints :
          k <= Len(WithSecond(root, 2, "footprint"))
          /\ FootprintLeft(WithSecond(root, 2, "footprint")[k].items, pcb.footprints[k],
                           technology, shape)

\* the elements of a list, from the from-th on, that are lists headed by the tag, as a set
ListsTagged(items, from, tag) ==
    { items[k] : k \in { j \in from..Len(items) :
                            items[j].kind = "list" /\ Tag(items[j].items) = Some(tag) } }

\* the pin elements of the units of the library symbols of this name
PinItems(root, name) ==
    UNION { ListsTagged(unit.items, 1, "pin") :
            unit \in UNION { ListsTagged(sym.items, 3, "symbol") :
                sym \in { y \in UNION { ListsTagged(lib.items, 2, "symbol") :
                                          lib \in ListsTagged(root, 2, "lib_symbols") } :
                            LibSymbolName(y.items) = Some(name) } } }

\* a pin of the model comes of a pin element: its number and name are what the element
\* gives, its electrical kind the symbol after the tag or, without one, the kind given
PinLeft(item, pin, without) ==
    /\ pin.pin_type = unwrap_or(SymAt(item, 1), without)
    /\ NoStringGiven(item, 3, "name") => pin.name = ""
    /\ ~NoStringGiven(item, 3, "number")
    /\ \E k \in DOMAIN ChildrenTagged(item, 3, "number") :
          StringAt(ChildrenTagged(item, 3, "number")[k].items, 1) = Some(pin.number)

SymbolLeft(item, symbol) ==
    /\ NoStringGiven(item, 2, "lib_id") => symbol.lib_id = ""
    /\ NoStringGiven(item, 2, "uuid") => symbol.uuid = ""
    /\ NoPropertyGiven(item, 2, "Reference") => symbol.reference = ""
    /\ NoPropertyGiven(item, 2, "Value") => symbol.value = ""
    /\ NoPropertyGiven(item, 2, "Footprint") => symbol.footprint = ""
    /\ ChildrenTagged(item, 2, "at") = <<>> => symbol.at = <<0, 0, 0>>
    /\ ChildrenTagged(item, 2, "at") # <<>> =>
          symbol.at = At3(FinalOf(ChildrenTagged(item, 2, "at")).items)
    /\ ChildrenTagged(item, 2, "pin") = <<>> => symbol.pins = EmptyMap
    /\ ChildrenTagged(item, 2, "property") = <<>> => symbol.properties = EmptyMap

SchematicLeft(root, schematic, kind) ==
    /\ VersionLeft(root, schematic.version)
    /\ NoStringGiven(root, 2, "uuid") => schematic.uuid = ""
    /\ ChildrenTagged(root, 2, "lib_symbols") = <<>> => schematic.lib_symbols = EmptyMap
    /\ \A name \in DOMAIN schematic.lib_symbols :
          \A p \in DOMAIN schematic.lib_symbols[name].pins :
              \E pin \in PinItems(root, name) :
                  PinLeft(pin.items, schematic.lib_symbols[name].pins[p], kind)
    /\ Len(schematic.symbols) = Len(ChildrenTagged(root, 2, "symbol"))
    /\ \A k \in DOMAIN schematic.symbols :
          k <= Len(ChildrenTagged(root, 2, "symbol"))
          /\ SymbolLeft(ChildrenTagged(root, 2, "symbol")[k].items, schematic.symbols[k])

\* the fields of the model after a parse that succeeded, given what is left for a
\* thickness, a layer type, a pad technology, a pad shape and a pin kind that is not given
FieldsLeft(thickness, layer, technology, shape, kind) ==
    (pc = "ret" /\ op \in Parsers /\ ret.ok) =>
        IF op = "KicadPcb::parse_str"
        THEN PcbLeft(Value(arg).items, Value(ret), thickness, layer, technology, shape)
        ELSE SchematicLeft(Value(arg).items, Value(ret), kind)

EndsInOneOf(name, suffixes) == \E s \in suffixes : ends_with(Fold(name), s)

\* C25: of the connected names that match no ground rule and no power rule, every name
\* that ends in _P, +, _DP or _POS, in whatever case, is differential-positive, every
\* name that ends in _N, -, _DN or _NEG is differential-negative, and a name that
\* matches no rule of the four sets is a signal.
C25_DiffPairSuffixes ==
    (Classified /\ Connected(arg.name)
        /\ ~MatchesGround(arg.name) /\ ~MatchesPower(arg.name)) =>
        /\ EndsInOneOf(arg.name, {"_p", "+", "_dp", "_pos"}) => ret = "DiffPairP"
        /\ (~EndsInOneOf(arg.name, {"_p", "+", "_dp", "_pos"})
              /\ EndsInOneOf(arg.name, {"_n", "-", "_dn", "_neg"})) => ret = "DiffPairN"
        /\ (~AnyMatch(DIFFPAIR_P_PATTERNS(arg.name))
              /\ ~AnyMatch(DIFFPAIR_N_PATTERNS(arg.name))) => ret = "Signal"

\* C26: infer_net_type returns signal for the empty name and for every name with the
\* unconnected prefix, before a rule set is tested: such a name is a signal also when
\* the rest of it matches a ground, a power or a differential rule.
C26_UnconnectedIsSignal ==
    (Classified /\ ~Connected(arg.name)) => ret = "Signal"

\* the rest of the name after the unconnected prefix
AfterPrefix(name) == From(name, Len("unconnected-") + 1)

\* a name with the unconnected prefix whose rest, and which itself, matches a ground, a
\* power or a differential rule has been classified a signal
C26_Witness ==
    /\ Classified
    /\ starts_with(arg.name, "unconnected-")
    /\ \/ MatchesGround(AfterPrefix(arg.name)) /\ MatchesGround(arg.name)
       \/ MatchesPower(AfterPrefix(arg.name)) /\ MatchesPower(arg.name)
       \/ AnyMatch(DIFFPAIR_P_PATTERNS(AfterPrefix(arg.name)))
            /\ AnyMatch(DIFFPAIR_P_PATTERNS(arg.name))
    /\ ret = "Signal"

\* ---------------------------------------------------------------------------
\* The identifiers of the declared nets
\* ---------------------------------------------------------------------------

\* the lines of the output that declare a net
NetDeclarations(out) == {i \in DOMAIN out : out[i].kind = "net"}

\* the identifier that a declaration assigns to: the text before the first blank
DeclaredVariable(line) == Sub(line.text, 1, FirstIndexOf(line.text, " ", 1) - 1)

\* C27: in every output two declared nets of different names never get the same
\* identifier: sanitation is injective on the nets declared for one project, so that no
\* declaration overwrites another.
C27_DistinctIdentifiers ==
    Rendered =>
        \A i, j \in NetDeclarations(ret) :
            ret[i].net # ret[j].net => DeclaredVariable(ret[i]) # DeclaredVariable(ret[j])

\* where the right side of a pin assignment begins: after the last blank or equals sign
RightSide(text) ==
    IF LastIndexOf(text, " ", Len(text)) > LastIndexOf(text, "=", Len(text))
    THEN LastIndexOf(text, " ", Len(text)) + 1
    ELSE LastIndexOf(text, "=", Len(text)) + 1

\* the net variable that a pin assignment refers to: its right side without the comma
\* that ends the line
PinVariable(line) ==
    Sub(line.text, RightSide(line.text), Len(line.text) - RightSide(line.text))

\* C28: in every output the net variable on the right of a pin assignment, which is made
\* of the net name of the pad, is the identifier of a net declaration written earlier,
\* which is made of the net table of the layout; so also when a pad names a net that the
\* table does not have.
C28_PinNetsDeclared ==
    Rendered =>
        \A i \in DOMAIN ret :
            IsPinLine(ret[i]) =>
                \E j \in NetDeclarations(ret) :
                    j < i /\ DeclaredVariable(ret[j]) = PinVariable(ret[i])

\* the pin that a pin assignment assigns to: the text before its right side, without blanks
PinName(line) == Unspaced(Sub(line.text, 1, RightSide(line.text) - 1))

\* the pin assignments of the block that line i opens
PinLinesOf(out, i) == {k \in i..BlockEnd(out, i) : IsPinLine(out[k])}

\* C29: within each component block every pin name is on the left of one assignment at
\* most, whatever the joined footprint and the pin table of the template: so also for a
\* footprint with several pads of one number, and for a template that maps several pad
\* numbers to one pin.
C29_PinNamesOnce ==
    Rendered =>
        \A i \in DOMAIN ret :
            ret[i].kind \in {"open", "component"} =>
                \A k, m \in PinLinesOf(ret, i) :
                    k # m => PinName(ret[k]) # PinName(ret[m])

\* ---------------------------------------------------------------------------
\* The entries of SYMBOL_MAP do not overlap
\* ---------------------------------------------------------------------------

\* the entries of the table that SymbolPattern::matches accepts for the library id
EntriesMatching(lib_id) == {i \in DOMAIN SYMBOL_MAP : matches(SYMBOL_MAP[i], lib_id)}

\* no pattern of the table begins with a prefix pattern of another entry, and no two
\* entries have one pattern
PatternsDisjoint ==
    \A i, j \in DOMAIN SYMBOL_MAP :
        i # j =>
            /\ SYMBOL_MAP[i].s # SYMBOL_MAP[j].s
            /\ SYMBOL_MAP[i].kind = "Prefix" => ~starts_with(SYMBOL_MAP[j].s, SYMBOL_MAP[i].s)

\* C30: for every library id at most one entry of the table matches, no exact entry
\* beginning with the pattern of a prefix entry and no prefix pattern with another; so
\* map_symbol gives the template of whichever entry matches, the same under every
\* order of the entries, and none when no entry matches.
C30_OneEntryAtMost ==
    Mapped =>
        /\ PatternsDisjoint
        /\ Cardinality(EntriesMatching(arg)) <= 1
        /\ \A i \in EntriesMatching(arg) : ret = Some(SYMBOL_MAP[i].info)
        /\ EntriesMatching(arg) = {} => ret = None

\* a library id that begins with the pattern of a prefix entry and goes on, and one that
\* is an exact pattern which begins with another exact pattern, have been mapped
C30_Witness ==
    /\ Mapped
    /\ \/ arg = "Device:Q_NPN_BEC" /\ Cardinality(EntriesMatching(arg)) = 1 /\ ret # None
       \/ arg = "Device:C_Polarized" /\ Cardinality(EntriesMatching(arg)) = 1
            /\ ret # None /\ ret[1].flags # <<>>

====
